---- MODULE Spec2Model ----
(***************************************************************************)
(* Model of the meta operations of the Intel ICD (icd/intel/cmd_meta.c):   *)
(* copies, fills, clears and resolves recorded as disguised draws.         *)
(*                                                                         *)
(* One action per public entry point.  An action evaluates the whole       *)
(* handler on a "machine" record m that threads the handler's locals       *)
(* (meta, the loop counters i and j), the command buffer's error field and *)
(* the log of what the handler asked of its collaborators (views created   *)
(* and destroyed, draws dispatched, errors reported).                      *)
(***************************************************************************)
EXTENDS Integers, Sequences, FiniteSets, TLC

VARIABLES cmd, pc, call, meta, draws, views, destroys, binds, live, fails,
          mem, submitted

vars == <<cmd, pc, call, meta, draws, views, destroys, binds, live, fails,
          mem, submitted>>

----------------------------------------------------------------------------
(* Bounds of the model *)

\* longest region / range list a call is given
MaxRegions == 2
\* view constructions of a call whose outcome is chosen freely; later ones succeed
MaxViewOrd == 4
\* command buffers the queue executes
MaxSubmits == 2

----------------------------------------------------------------------------
(* 32-bit words as the set of their set bits *)

WordBits == 0..31

RECURSIVE Val(_)
Val(s) == IF s = {} THEN 0
          ELSE LET b == CHOOSE x \in s : TRUE IN 2^b + Val(s \ {b})

Bits(n) == {b \in 0..30 : (n \div 2^b) % 2 = 1}

\* a & b, a | b, ~a on uint32_t
BitAnd(a, b) == a \cap b
BitOr(a, b) == a \cup b
BitNot(a) == WordBits \ a

(* Generation field table (genhw): shift and width of the surface fields   *)

Gens == {6, 7}

FieldOf(gen, name) ==
    IF gen >= 7
    THEN CASE name = "DW2_WIDTH"             -> [shift |-> 0,  bits |-> 14]
           [] name = "DW2_HEIGHT"            -> [shift |-> 16, bits |-> 14]
           [] name = "DW4_MIN_ARRAY_ELEMENT" -> [shift |-> 18, bits |-> 11]
           [] name = "DW5_X_OFFSET"          -> [shift |-> 25, bits |-> 7]
           [] name = "DW5_Y_OFFSET"          -> [shift |-> 21, bits |-> 4]
    ELSE CASE name = "DW2_WIDTH"             -> [shift |-> 6,  bits |-> 13]
           [] name = "DW2_HEIGHT"            -> [shift |-> 19, bits |-> 13]
           [] name = "DW4_MIN_ARRAY_ELEMENT" -> [shift |-> 17, bits |-> 11]
           [] name = "DW5_X_OFFSET"          -> [shift |-> 25, bits |-> 7]
           [] name = "DW5_Y_OFFSET"          -> [shift |-> 20, bits |-> 5]

FieldMask(f) == f.shift .. (f.shift + f.bits - 1)

\* GEN_EXTRACT(bits, field): (bits & field__MASK) >> field__SHIFT
GEN_EXTRACT(w, f) == Val({b - f.shift : b \in BitAnd(w, FieldMask(f))})

\* GEN_SHIFT32(val, field): val << field__SHIFT, as uint32_t
GEN_SHIFT32(v, f) == {b + f.shift : b \in Bits(v)} \cap WordBits

\* number of dwords of a surface state
SurfaceLen(gen) == IF gen >= 7 THEN 8 ELSE 6

SurfaceIdx == 0..7

----------------------------------------------------------------------------
(* Formats (icd-format) *)

Formats == {"VK_FORMAT_UNDEFINED", "VK_FORMAT_R8_UINT", "VK_FORMAT_R16_UINT",
            "VK_FORMAT_R32_UINT", "VK_FORMAT_R32G32_UINT",
            "VK_FORMAT_R32G32B32A32_UINT", "VK_FORMAT_R8G8B8A8_UINT",
            "VK_FORMAT_R8G8B8A8_UNORM", "VK_FORMAT_R8G8B8_UNORM",
            "VK_FORMAT_BC1_RGB_UNORM", "VK_FORMAT_BC3_UNORM",
            "VK_FORMAT_ASTC_5x4_UNORM", "VK_FORMAT_ASTC_8x5_UNORM",
            "VK_FORMAT_D32_SFLOAT"}

icd_format_get_size(f) ==
    CASE f = "VK_FORMAT_UNDEFINED"         -> 0
      [] f = "VK_FORMAT_R8_UINT"           -> 1
      [] f = "VK_FORMAT_R16_UINT"          -> 2
      [] f = "VK_FORMAT_R8G8B8_UNORM"      -> 3
      [] f = "VK_FORMAT_R32_UINT"          -> 4
      [] f = "VK_FORMAT_R8G8B8A8_UINT"     -> 4
      [] f = "VK_FORMAT_R8G8B8A8_UNORM"    -> 4
      [] f = "VK_FORMAT_R32G32_UINT"       -> 8
      [] f = "VK_FORMAT_BC1_RGB_UNORM"     -> 8
      [] f = "VK_FORMAT_R32G32B32A32_UINT" -> 16
      [] f = "VK_FORMAT_BC3_UNORM"         -> 16
      [] f = "VK_FORMAT_ASTC_5x4_UNORM"    -> 16
      [] f = "VK_FORMAT_ASTC_8x5_UNORM"    -> 16
      [] f = "VK_FORMAT_D32_SFLOAT"        -> 4

icd_format_is_compressed(f) ==
    f \in {"VK_FORMAT_BC1_RGB_UNORM", "VK_FORMAT_BC3_UNORM",
           "VK_FORMAT_ASTC_5x4_UNORM", "VK_FORMAT_ASTC_8x5_UNORM"}

icd_format_get_block_width(f) ==
    CASE f = "VK_FORMAT_ASTC_5x4_UNORM" -> 5
      [] f = "VK_FORMAT_ASTC_8x5_UNORM" -> 8
      [] OTHER -> IF icd_format_is_compressed(f) THEN 4 ELSE 1

\* the block height the layout of an image of format f has
FormatBlockHeight(f) ==
    CASE f = "VK_FORMAT_ASTC_5x4_UNORM" -> 4
      [] f = "VK_FORMAT_ASTC_8x5_UNORM" -> 5
      [] OTHER -> IF icd_format_is_compressed(f) THEN 4 ELSE 1

FormatId(f) ==
    CASE f = "VK_FORMAT_UNDEFINED"         -> 0
      [] f = "VK_FORMAT_R8_UINT"           -> 1
      [] f = "VK_FORMAT_R16_UINT"          -> 2
      [] f = "VK_FORMAT_R8G8B8_UNORM"      -> 3
      [] f = "VK_FORMAT_R32_UINT"          -> 4
      [] f = "VK_FORMAT_R8G8B8A8_UINT"     -> 5
      [] f = "VK_FORMAT_R8G8B8A8_UNORM"    -> 6
      [] f = "VK_FORMAT_R32G32_UINT"       -> 7
      [] f = "VK_FORMAT_BC1_RGB_UNORM"     -> 8
      [] f = "VK_FORMAT_R32G32B32A32_UINT" -> 9
      [] f = "VK_FORMAT_BC3_UNORM"         -> 10
      [] f = "VK_FORMAT_ASTC_5x4_UNORM"    -> 11
      [] f = "VK_FORMAT_ASTC_8x5_UNORM"    -> 12
      [] f = "VK_FORMAT_D32_SFLOAT"        -> 13

----------------------------------------------------------------------------
(* struct intel_cmd_meta, zero-filled *)

ZeroSurface == [k \in SurfaceIdx |-> {}]

ZeroBinding ==
    [valid |-> FALSE, surface |-> ZeroSurface, surface_len |-> 0,
     reloc_target |-> 0, reloc_offset |-> 0, reloc_flags |-> {},
     x |-> 0, y |-> 0, lod |-> 0, layer |-> 0]

ZeroDs ==
    [view |-> 0, stencil_ref |-> 0, aspect |-> "0", op |-> "INTEL_CMD_META_DS_NOP",
     optimal |-> FALSE]

ZeroMeta ==
    [mode |-> "0", shader_id |-> "0", width |-> 0, height |-> 0, samples |-> 0,
     clear_val |-> [k \in 0..3 |-> 0],
     src |-> ZeroBinding, dst |-> ZeroBinding, ds |-> ZeroDs]

----------------------------------------------------------------------------
(* The machine a handler runs on *)

ViewResults == {"VK_SUCCESS", "VK_ERROR_OUT_OF_HOST_MEMORY",
                "VK_ERROR_OUT_OF_DEVICE_MEMORY"}

Results == ViewResults \cup {"VK_ERROR_UNKNOWN", "VK_ERROR_UNAVAILABLE"}

\* outcome of the k-th view construction of a call; at most two of them fail
Oracles ==
    {o \in [1..MaxViewOrd -> ViewResults] :
        Cardinality({k \in 1..MaxViewOrd : o[k] # "VK_SUCCESS"}) <= 2}

\* the build: whether assert() is compiled in, and what an undefined
\* operation (a division by zero, the release of a dead handle) does
Builds == [asserts : BOOLEAN, ub : {"crash", "continue"}]

DebugBuild == [asserts |-> TRUE, ub |-> "crash"]

Machine(c, oracle, build) ==
    [gen |-> c.gen, result |-> c.result, oracle |-> oracle,
     asserts |-> build.asserts, ub |-> build.ub,
     ord |-> 0, meta |-> ZeroMeta, draws |-> <<>>, views |-> <<>>,
     binds |-> <<>>, destroys |-> <<>>,
     live |-> {}, fails |-> <<>>, rect |-> 0, r |-> 0, i |-> 0, j |-> 0,
     crashed |-> FALSE, ub_hit |-> FALSE]

\* the process dies (abort(), a fault)
Abort(m) == [m EXCEPT !.crashed = TRUE]

\* an operation with undefined behaviour was executed
Undefined(m) ==
    IF m.ub = "crash" THEN [m EXCEPT !.crashed = TRUE, !.ub_hit = TRUE]
    ELSE [m EXCEPT !.ub_hit = TRUE]

\* cmd_fail(cmd, result): the error sink keeps the first error
cmd_fail(m, res) ==
    [m EXCEPT !.fails = Append(@, res),
              !.result = IF @ = "VK_SUCCESS" THEN res ELSE @]

\* cmd_draw_meta(cmd, meta): one draw built from the descriptor as it is now
cmd_draw_meta(m) ==
    [m EXCEPT !.draws = Append(@, [meta |-> m.meta, rect |-> m.rect, r |-> m.r,
                                   i |-> m.i, j |-> m.j, live |-> m.live])]

\* a view constructor: the k-th construction of the call ends as the oracle says
view_create(m, kind, words) ==
    LET id == m.ord + 1
        res == IF id \in DOMAIN m.oracle THEN m.oracle[id] ELSE "VK_SUCCESS"
    IN [m |-> [m EXCEPT !.ord = id,
                        !.views = Append(@, [kind |-> kind, res |-> res]),
                        !.live = IF res = "VK_SUCCESS" THEN @ \cup {id} ELSE @],
        res |-> res,
        view |-> IF res = "VK_SUCCESS"
                 THEN [id |-> id, cmd |-> words, cmd_len |-> SurfaceLen(m.gen)]
                 ELSE [id |-> 0, cmd |-> ZeroSurface, cmd_len |-> 0]]

\* intel_buf_view_destroy / intel_img_view_destroy / intel_att_view_destroy
\* on a handle that is null or was destroyed before, the behaviour is undefined
view_destroy(m, id) ==
    LET m1 == [m EXCEPT !.destroys = Append(@, id)]
    IN IF id \in m.live THEN [m1 EXCEPT !.live = @ \ {id}] ELSE Undefined(m1)

\* a builder returns: what it left in the binding it was to build
Built(m, side, res) ==
    [m EXCEPT !.binds = Append(@, [side |-> side, res |-> res,
                                   binding |-> m.meta[side]])]

\* memcpy(binding.surface, view->cmd, sizeof(view->cmd[0]) * view->cmd_len)
CopyWords(old, view) ==
    [k \in SurfaceIdx |-> IF k < view.cmd_len THEN view.cmd[k] ELSE old[k]]

----------------------------------------------------------------------------
(* Buffers and their views *)

Buffers == {[size |-> 16, bo |-> 1], [size |-> 10, bo |-> 2]}

\* words of a buffer view: format in dword 0, element count in dword 2
BufViewCmd(format, range) ==
    [k \in SurfaceIdx |->
        IF k = 0 THEN Bits(FormatId(format))
        ELSE IF k = 2 THEN Bits(range) ELSE {}]

intel_buf_view_create(m, info) ==
    view_create(m, "buf", BufViewCmd(info.format, info.range))

cmd_meta_create_buf_view(m, buf, range, format) ==
    LET stride == icd_format_get_size(format) IN
    IF stride = 0
    THEN \* info.range % 0
         LET u == Undefined(m) IN
         IF u.crashed THEN [m |-> u, res |-> "VK_SUCCESS", view |-> [id |-> 0, cmd |-> ZeroSurface, cmd_len |-> 0]]
         ELSE intel_buf_view_create(u, [buffer |-> buf, format |-> format, range |-> range])
    ELSE LET r == IF range % stride # 0
                  THEN range + (stride - (range % stride)) ELSE range
         IN intel_buf_view_create(m, [buffer |-> buf, format |-> format, range |-> r])

\* a variant that asks for a write relocation of the source
cmd_meta_set_src_for_buf_Write(m, buf, format) ==
    LET c == cmd_meta_create_buf_view(m, buf, buf.size, format) IN
    IF c.m.crashed THEN c.m
    ELSE IF c.res # "VK_SUCCESS" THEN Built(cmd_fail(c.m, c.res), "src", c.res)
    ELSE Built([view_destroy(c.m, c.view.id) EXCEPT
            !.meta.src.valid = TRUE,
            !.meta.src.surface = CopyWords(@, c.view),
            !.meta.src.surface_len = c.view.cmd_len,
            !.meta.src.reloc_target = buf.bo,
            !.meta.src.reloc_offset = 0,
            !.meta.src.reloc_flags = {"INTEL_RELOC_WRITE"}], "src", c.res)

cmd_meta_set_src_for_buf(m, buf, format) ==
    LET c == cmd_meta_create_buf_view(m, buf, buf.size, format) IN
    IF c.m.crashed THEN c.m
    ELSE IF c.res # "VK_SUCCESS" THEN Built(cmd_fail(c.m, c.res), "src", c.res)
    ELSE Built([view_destroy(c.m, c.view.id) EXCEPT
            !.meta.src.valid = TRUE,
            !.meta.src.surface = CopyWords(@, c.view),
            !.meta.src.surface_len = c.view.cmd_len,
            !.meta.src.reloc_target = buf.bo,
            !.meta.src.reloc_offset = 0,
            !.meta.src.reloc_flags = {}], "src", c.res)

cmd_meta_set_dst_for_buf(m, buf, format) ==
    LET c == cmd_meta_create_buf_view(m, buf, buf.size, format) IN
    IF c.m.crashed THEN c.m
    ELSE IF c.res # "VK_SUCCESS" THEN Built(cmd_fail(c.m, c.res), "dst", c.res)
    ELSE Built([view_destroy(c.m, c.view.id) EXCEPT
            !.meta.dst.valid = TRUE,
            !.meta.dst.surface = CopyWords(@, c.view),
            !.meta.dst.surface_len = c.view.cmd_len,
            !.meta.dst.reloc_target = buf.bo,
            !.meta.dst.reloc_offset = 0,
            !.meta.dst.reloc_flags = {"INTEL_RELOC_WRITE"}], "dst", c.res)

\* enum intel_cmd_writer_type
INTEL_CMD_WRITER_STATE == 2

cmd_meta_set_src_for_writer(m, writer, size, format) ==
    LET c == cmd_meta_create_buf_view(m, 0, size, format) IN
    IF c.m.crashed THEN c.m
    ELSE IF c.res # "VK_SUCCESS" THEN Built(cmd_fail(c.m, c.res), "src", c.res)
    ELSE Built([view_destroy(c.m, c.view.id) EXCEPT
            !.meta.src.valid = TRUE,
            !.meta.src.surface = CopyWords(@, c.view),
            !.meta.src.surface_len = c.view.cmd_len,
            !.meta.src.reloc_target = writer,
            !.meta.src.reloc_offset = 0,
            !.meta.src.reloc_flags = {"INTEL_CMD_RELOC_TARGET_IS_WRITER"}], "src", c.res)

\* a variant that forgets the size
cmd_meta_mem_dword_aligned_NoSize(src_offset, dst_offset, size) ==
    BitAnd(BitOr(Bits(src_offset), Bits(dst_offset)), {0, 1}) = {}

cmd_meta_mem_dword_aligned(src_offset, dst_offset, size) ==
    BitAnd(BitOr(BitOr(Bits(src_offset), Bits(dst_offset)), Bits(size)), {0, 1}) = {}

----------------------------------------------------------------------------
(* Images, their layout and their views *)

u_minify(v, l) == IF v \div 2^l > 1 THEN v \div 2^l ELSE 1

\* intel_layout_get_slice_tile_offset(): the tile-aligned byte offset of a
\* slice and the position of the slice inside that tile
intel_layout_get_slice_tile_offset(layout, level, slice) ==
    [offset |-> slice * layout.slice_stride,
     x |-> (slice * layout.slice_dx) % 128,
     y |-> (slice * layout.slice_dy) % 32]

\* intel_img_can_enable_hiz(img, level)
intel_img_can_enable_hiz(img, level) == level \in img.hiz_levels

\* words of an image (sampler) view
ImgViewCmd(img, info) ==
    [k \in SurfaceIdx |->
        IF k = 0 THEN Bits(FormatId(info.format))
        ELSE IF k = 1 THEN Bits(img.bo) ELSE {}]

\* words of a colour attachment view: size minus one of the mip level in
\* dword 2, the first slice in dword 4; img.enc are the bits the encoder sets
\* besides
AttViewCmd(gen, img, info) ==
    LET fw == FieldOf(gen, "DW2_WIDTH")
        fh == FieldOf(gen, "DW2_HEIGHT")
        fa == FieldOf(gen, "DW4_MIN_ARRAY_ELEMENT")
        w == u_minify(img.layout.width0, info.mipLevel)
        h == u_minify(img.layout.height0, info.mipLevel)
    IN [k \in SurfaceIdx |->
          IF k >= SurfaceLen(gen) THEN {}
          ELSE IF k = 0 THEN Bits(FormatId(info.format))
          ELSE IF k = 2
               THEN BitOr(BitOr(GEN_SHIFT32(w - 1, fw), GEN_SHIFT32(h - 1, fh)),
                          img.enc.dw2 \ BitOr(FieldMask(fw), FieldMask(fh)))
          ELSE IF k = 4
               THEN BitOr(GEN_SHIFT32(info.baseArraySlice, fa),
                          img.enc.dw4 \ FieldMask(fa))
          ELSE IF k = 5 THEN img.enc.dw5
          ELSE {}]

intel_img_view_create(m, img, info) ==
    view_create(m, "img", ImgViewCmd(img, info))

intel_att_view_create_for_color(m, img, info) ==
    view_create(m, "att", AttViewCmd(m.gen, img, info))

intel_att_view_create_for_ds(m, img, info) ==
    view_create(m, "ds", ZeroSurface)

cmd_meta_set_src_for_img(m, img, format, aspect) ==
    LET viewType ==
            IF img.array_size = 1
            THEN CASE img.type = "VK_IMAGE_TYPE_1D" -> "VK_IMAGE_VIEW_TYPE_1D"
                   [] img.type = "VK_IMAGE_TYPE_2D" -> "VK_IMAGE_VIEW_TYPE_2D"
                   [] OTHER -> "0"
            ELSE CASE img.type = "VK_IMAGE_TYPE_1D" -> "VK_IMAGE_VIEW_TYPE_1D_ARRAY"
                   [] img.type = "VK_IMAGE_TYPE_2D" -> "VK_IMAGE_VIEW_TYPE_2D_ARRAY"
                   [] img.type = "VK_IMAGE_TYPE_3D" -> "VK_IMAGE_VIEW_TYPE_3D"
                   [] OTHER -> "0"
        c == intel_img_view_create(m, img,
                 [viewType |-> viewType, format |-> format, aspect |-> aspect])
    IN IF c.res # "VK_SUCCESS" THEN Built(cmd_fail(c.m, c.res), "src", c.res)
       ELSE Built([view_destroy(c.m, c.view.id) EXCEPT
                     !.meta.src.valid = TRUE,
                     !.meta.src.surface = CopyWords(@, c.view),
                     !.meta.src.surface_len = c.view.cmd_len,
                     !.meta.src.reloc_target = img.bo,
                     !.meta.src.reloc_offset = 0,
                     !.meta.src.reloc_flags = {}], "src", c.res)

\* a variant that divides the height by the block width
cmd_meta_adjust_compressed_dst_SquareBlocks(m, img) ==
    LET fw == FieldOf(m.gen, "DW2_WIDTH")
        fh == FieldOf(m.gen, "DW2_HEIGHT")
        fa == FieldOf(m.gen, "DW4_MIN_ARRAY_ELEMENT")
        fx == FieldOf(m.gen, "DW5_X_OFFSET")
        fy == FieldOf(m.gen, "DW5_Y_OFFSET")
        s == m.meta.dst.surface
        layer == GEN_EXTRACT(s[4], fa)
        w == (GEN_EXTRACT(s[2], fw) + img.layout.block_width)
                 \div img.layout.block_width - 1
        h == (GEN_EXTRACT(s[2], fh) + img.layout.block_width)
                 \div img.layout.block_width - 1
        m1 == [m EXCEPT !.meta.dst.surface[2] =
                  BitOr(BitAnd(@, BitNot(BitOr(FieldMask(fw), FieldMask(fh)))),
                        BitOr(GEN_SHIFT32(w, fw), GEN_SHIFT32(h, fh)))]
    IN IF layer = 0 THEN m1
       ELSE LET t == intel_layout_get_slice_tile_offset(img.layout, 0, layer)
                x_offset == (t.x \div img.layout.block_width) \div 4
                y_offset == (t.y \div img.layout.block_height) \div 2
            IN [m1 EXCEPT
                  !.meta.dst.reloc_offset = t.offset,
                  !.meta.dst.surface[4] = BitAnd(@, BitNot(FieldMask(fa))),
                  !.meta.dst.surface[5] =
                      BitOr(@, BitOr(GEN_SHIFT32(x_offset, fx),
                                     GEN_SHIFT32(y_offset, fy)))]

cmd_meta_adjust_compressed_dst(m, img) ==
    LET fw == FieldOf(m.gen, "DW2_WIDTH")
        fh == FieldOf(m.gen, "DW2_HEIGHT")
        fa == FieldOf(m.gen, "DW4_MIN_ARRAY_ELEMENT")
        fx == FieldOf(m.gen, "DW5_X_OFFSET")
        fy == FieldOf(m.gen, "DW5_Y_OFFSET")
        s == m.meta.dst.surface
        layer == GEN_EXTRACT(s[4], fa)
        \* note that the width/height fields have the real values minus 1
        w == (GEN_EXTRACT(s[2], fw) + img.layout.block_width)
                 \div img.layout.block_width - 1
        h == (GEN_EXTRACT(s[2], fh) + img.layout.block_height)
                 \div img.layout.block_height - 1
        m1 == [m EXCEPT !.meta.dst.surface[2] =
                  BitOr(BitAnd(@, BitNot(BitOr(FieldMask(fw), FieldMask(fh)))),
                        BitOr(GEN_SHIFT32(w, fw), GEN_SHIFT32(h, fh)))]
    IN IF layer = 0 THEN m1
       ELSE LET t == intel_layout_get_slice_tile_offset(img.layout, 0, layer)
                x_offset == (t.x \div img.layout.block_width) \div 4
                y_offset == (t.y \div img.layout.block_height) \div 2
            IN [m1 EXCEPT
                  !.meta.dst.reloc_offset = t.offset,
                  !.meta.dst.surface[4] = BitAnd(@, BitNot(FieldMask(fa))),
                  !.meta.dst.surface[5] =
                      BitOr(@, BitOr(GEN_SHIFT32(x_offset, fx),
                                     GEN_SHIFT32(y_offset, fy)))]

cmd_meta_set_dst_for_img(m, img, format, lod, layer) ==
    LET c == intel_att_view_create_for_color(m, img,
                 [format |-> format, mipLevel |-> lod,
                  baseArraySlice |-> layer, arraySize |-> 1])
    IN IF c.res # "VK_SUCCESS" THEN Built(cmd_fail(c.m, c.res), "dst", c.res)
       ELSE LET m1 == [c.m EXCEPT
                         !.meta.dst.valid = TRUE,
                         !.meta.dst.surface = CopyWords(@, c.view),
                         !.meta.dst.surface_len = c.view.cmd_len,
                         !.meta.dst.reloc_target = img.bo,
                         !.meta.dst.reloc_offset = 0,
                         !.meta.dst.reloc_flags = {"INTEL_RELOC_WRITE"}]
                m2 == IF icd_format_is_compressed(img.layout.format)
                      THEN cmd_meta_adjust_compressed_dst(m1, img) ELSE m1
            IN Built(view_destroy(m2, c.view.id), "dst", c.res)

cmd_meta_set_ds_view(m, img, lod, layer) ==
    LET c == intel_att_view_create_for_ds(m, img,
                 [mipLevel |-> lod, baseArraySlice |-> layer, arraySize |-> 1])
    IN IF c.res # "VK_SUCCESS" THEN cmd_fail(c.m, c.res)
       ELSE [c.m EXCEPT !.meta.ds.view = c.view.id]

cmd_meta_set_ds_state(m, aspect, stencil_ref) ==
    [m EXCEPT !.meta.ds.stencil_ref = stencil_ref, !.meta.ds.aspect = aspect]

\* a selection that looks at copy_array before the sample count
get_shader_id_ArrayFirst(img, copy_array) ==
    CASE img.type = "VK_IMAGE_TYPE_1D" ->
            IF copy_array THEN "INTEL_DEV_META_FS_COPY_1D_ARRAY"
            ELSE "INTEL_DEV_META_FS_COPY_1D"
      [] img.type = "VK_IMAGE_TYPE_2D" ->
            IF copy_array THEN "INTEL_DEV_META_FS_COPY_2D_ARRAY"
            ELSE IF img.samples > 1 THEN "INTEL_DEV_META_FS_COPY_2D_MS"
            ELSE "INTEL_DEV_META_FS_COPY_2D"
      [] OTHER -> "INTEL_DEV_META_FS_COPY_2D_ARRAY"

get_shader_id(img, copy_array) ==
    CASE img.type = "VK_IMAGE_TYPE_1D" ->
            IF copy_array THEN "INTEL_DEV_META_FS_COPY_1D_ARRAY"
            ELSE "INTEL_DEV_META_FS_COPY_1D"
      [] img.type = "VK_IMAGE_TYPE_2D" ->
            IF img.samples > 1 THEN "INTEL_DEV_META_FS_COPY_2D_MS"
            ELSE IF copy_array THEN "INTEL_DEV_META_FS_COPY_2D_ARRAY"
            ELSE "INTEL_DEV_META_FS_COPY_2D"
      [] OTHER -> "INTEL_DEV_META_FS_COPY_2D_ARRAY"

\* the result is [m, format]: with assert() compiled in, the default case aborts
cmd_meta_img_raw_format(m, format) ==
    LET size == icd_format_get_size(format) IN
    CASE size = 1  -> [m |-> m, format |-> "VK_FORMAT_R8_UINT"]
      [] size = 2  -> [m |-> m, format |-> "VK_FORMAT_R16_UINT"]
      [] size = 4  -> [m |-> m, format |-> "VK_FORMAT_R32_UINT"]
      [] size = 8  -> [m |-> m, format |-> "VK_FORMAT_R32G32_UINT"]
      [] size = 16 -> [m |-> m, format |-> "VK_FORMAT_R32G32B32A32_UINT"]
      [] OTHER     -> [m |-> IF m.asserts THEN Abort(m) ELSE m,
                       format |-> "VK_FORMAT_UNDEFINED"]

----------------------------------------------------------------------------
(* vkCmdFillBuffer, vkCmdUpdateBuffer, vkCmdCopyBuffer *)

vkCmdFillBuffer(m, dst, destOffset, fillSize, data) ==
    IF BitAnd(BitOr(Bits(destOffset), Bits(fillSize)), {0, 1}) # {}
    THEN cmd_fail(m, "VK_ERROR_UNKNOWN")
    ELSE LET m1 == [m EXCEPT !.meta =
                       [ZeroMeta EXCEPT !.mode = "INTEL_CMD_META_VS_POINTS",
                                        !.shader_id = "INTEL_DEV_META_VS_FILL_MEM",
                                        !.clear_val[0] = data,
                                        !.dst.x = destOffset \div 4,
                                        !.width = fillSize \div 4,
                                        !.height = 1,
                                        !.samples = 1]]
             m2 == cmd_meta_set_dst_for_buf(m1, dst, "VK_FORMAT_R32G32B32A32_UINT")
         IN IF m2.crashed THEN m2 ELSE cmd_draw_meta(m2)

\* offset is what cmd_state_pointer() returns for the blob
vkCmdUpdateBuffer(m, dst, destOffset, dataSize, offset) ==
    IF BitAnd(BitOr(Bits(destOffset), Bits(dataSize)), {0, 1}) # {}
    THEN cmd_fail(m, "VK_ERROR_UNKNOWN")
    ELSE LET m1 == [m EXCEPT !.meta =
                       [ZeroMeta EXCEPT !.mode = "INTEL_CMD_META_VS_POINTS",
                                        !.shader_id = "INTEL_DEV_META_VS_COPY_MEM",
                                        !.src.x = offset \div 4,
                                        !.dst.x = destOffset \div 4,
                                        !.width = dataSize \div 4,
                                        !.height = 1,
                                        !.samples = 1]]
             m2 == cmd_meta_set_src_for_writer(m1, INTEL_CMD_WRITER_STATE,
                        offset + dataSize, "VK_FORMAT_R32G32B32A32_UINT")
             m3 == IF m2.crashed THEN m2
                   ELSE cmd_meta_set_dst_for_buf(m2, dst, "VK_FORMAT_R32G32B32A32_UINT")
         IN IF m3.crashed THEN m3 ELSE cmd_draw_meta(m3)

\* a variant that leaves the destination index in bytes
CopyBufferRegion_ByteIndex(m, format, src, dst, region) ==
    LET m1 == [m EXCEPT !.meta.src.x = region.srcOffset,
                        !.meta.dst.x = region.destOffset,
                        !.meta.width = region.copySize]
        aligned == cmd_meta_mem_dword_aligned(region.srcOffset,
                        region.destOffset, region.copySize)
    IN IF ~aligned /\ m.gen = 6
       THEN [m |-> cmd_fail(m1, "VK_ERROR_UNKNOWN"), format |-> format]
       ELSE LET m2 == IF aligned
                      THEN [m1 EXCEPT !.meta.shader_id = "INTEL_DEV_META_VS_COPY_MEM",
                                      !.meta.src.x = @ \div 4,
                                      !.meta.width = @ \div 4]
                      ELSE [m1 EXCEPT !.meta.shader_id =
                                          "INTEL_DEV_META_VS_COPY_MEM_UNALIGNED"]
                fmt == IF aligned THEN "VK_FORMAT_R32G32B32A32_UINT"
                       ELSE "VK_FORMAT_R8G8B8A8_UINT"
                m3 == IF format # fmt
                      THEN LET s == cmd_meta_set_src_for_buf(m2, src, fmt) IN
                           IF s.crashed THEN s
                           ELSE cmd_meta_set_dst_for_buf(s, dst, fmt)
                      ELSE m2
            IN [m |-> IF m3.crashed THEN m3 ELSE cmd_draw_meta(m3), format |-> fmt]

\* one iteration of the region loop; format is the local of that name
CopyBufferRegion(m, format, src, dst, region) ==
    LET m1 == [m EXCEPT !.meta.src.x = region.srcOffset,
                        !.meta.dst.x = region.destOffset,
                        !.meta.width = region.copySize]
        aligned == cmd_meta_mem_dword_aligned(region.srcOffset,
                        region.destOffset, region.copySize)
    IN IF ~aligned /\ m.gen = 6
       THEN [m |-> cmd_fail(m1, "VK_ERROR_UNKNOWN"), format |-> format]
       ELSE LET m2 == IF aligned
                      THEN [m1 EXCEPT !.meta.shader_id = "INTEL_DEV_META_VS_COPY_MEM",
                                      !.meta.src.x = @ \div 4,
                                      !.meta.dst.x = @ \div 4,
                                      !.meta.width = @ \div 4]
                      ELSE [m1 EXCEPT !.meta.shader_id =
                                          "INTEL_DEV_META_VS_COPY_MEM_UNALIGNED"]
                fmt == IF aligned THEN "VK_FORMAT_R32G32B32A32_UINT"
                       ELSE "VK_FORMAT_R8G8B8A8_UINT"
                m3 == IF format # fmt
                      THEN LET s == cmd_meta_set_src_for_buf(m2, src, fmt) IN
                           IF s.crashed THEN s
                           ELSE cmd_meta_set_dst_for_buf(s, dst, fmt)
                      ELSE m2
            IN [m |-> IF m3.crashed THEN m3 ELSE cmd_draw_meta(m3), format |-> fmt]

RECURSIVE CopyBufferLoop(_, _, _, _, _, _)
CopyBufferLoop(m, format, src, dst, regions, i) ==
    IF i >= Len(regions) \/ m.crashed THEN m
    ELSE LET r == CopyBufferRegion([m EXCEPT !.i = i], format, src, dst, regions[i + 1])
         IN CopyBufferLoop(r.m, r.format, src, dst, regions, i + 1)

vkCmdCopyBuffer(m, src, dst, regions) ==
    LET m1 == [m EXCEPT !.meta =
                  [ZeroMeta EXCEPT !.mode = "INTEL_CMD_META_VS_POINTS",
                                   !.height = 1,
                                   !.samples = 1]]
    IN CopyBufferLoop(m1, "VK_FORMAT_UNDEFINED", src, dst, regions, 0)

----------------------------------------------------------------------------
(* vkCmdCopyImage *)

RECURSIVE CopyImageLayers(_, _, _, _, _)

\* a variant that gives up the region at the first layer whose view fails
CopyImageLayers_StopOnFailure(m, dst, format, depth, j) ==
    IF j >= depth \/ m.crashed THEN m
    ELSE LET m1 == cmd_meta_set_dst_for_img([m EXCEPT !.j = j], dst, format,
                       m.meta.dst.lod, m.meta.dst.layer)
         IN IF Len(m1.fails) > Len(m.fails) THEN m1
            ELSE CopyImageLayers([cmd_draw_meta(m1) EXCEPT
                                      !.meta.src.layer = @ + 1,
                                      !.meta.dst.layer = @ + 1],
                                 dst, format, depth, j + 1)

CopyImageLayers(m, dst, format, depth, j) ==
    IF j >= depth \/ m.crashed THEN m
    ELSE LET m1 == cmd_meta_set_dst_for_img([m EXCEPT !.j = j], dst, format,
                       m.meta.dst.lod, m.meta.dst.layer)
             m2 == cmd_draw_meta(m1)
         IN CopyImageLayers([m2 EXCEPT !.meta.src.layer = @ + 1,
                                       !.meta.dst.layer = @ + 1],
                            dst, format, depth, j + 1)

CopyImageRegion(m, src, dst, raw_copy, raw_format, region) ==
    LET m1 == [m EXCEPT
                 !.meta.shader_id = get_shader_id(src, region.extent.depth > 1),
                 !.meta.src.lod = region.srcSubresource.mipLevel,
                 !.meta.src.layer = region.srcSubresource.arraySlice
                                        + region.srcOffset.z,
                 !.meta.src.x = region.srcOffset.x,
                 !.meta.src.y = region.srcOffset.y,
                 !.meta.dst.lod = region.destSubresource.mipLevel,
                 !.meta.dst.layer = region.destSubresource.arraySlice
                                        + region.destOffset.z,
                 !.meta.dst.x = region.destOffset.x,
                 !.meta.dst.y = region.destOffset.y,
                 !.meta.width = region.extent.width,
                 !.meta.height = region.extent.height]
        block_width == icd_format_get_block_width(raw_format)
        m2 == IF raw_copy
              THEN [m1 EXCEPT !.meta.src.x = @ \div block_width,
                              !.meta.src.y = @ \div block_width,
                              !.meta.dst.x = @ \div block_width,
                              !.meta.dst.y = @ \div block_width,
                              !.meta.width = @ \div block_width,
                              !.meta.height = @ \div block_width]
              ELSE m1
    IN CopyImageLayers(m2, dst,
                       IF raw_copy THEN raw_format ELSE dst.layout.format,
                       region.extent.depth, 0)

RECURSIVE CopyImageLoop(_, _, _, _, _, _, _)
CopyImageLoop(m, src, dst, raw_copy, raw_format, regions, i) ==
    IF i >= Len(regions) \/ m.crashed THEN m
    ELSE CopyImageLoop(CopyImageRegion([m EXCEPT !.i = i], src, dst, raw_copy,
                                       raw_format, regions[i + 1]),
                       src, dst, raw_copy, raw_format, regions, i + 1)

vkCmdCopyImage(m, src, dst, regions) ==
    IF src.type # dst.type THEN cmd_fail(m, "VK_ERROR_UNKNOWN")
    ELSE LET raw_copy == src.layout.format = dst.layout.format
             rf == IF raw_copy THEN cmd_meta_img_raw_format(m, src.layout.format)
                   ELSE [m |-> m, format |-> "VK_FORMAT_UNDEFINED"]
         IN IF ~raw_copy /\ (icd_format_is_compressed(src.layout.format)
                             \/ icd_format_is_compressed(dst.layout.format))
            THEN cmd_fail(m, "VK_ERROR_UNKNOWN")
            ELSE IF rf.m.crashed THEN rf.m
            ELSE LET m1 == [rf.m EXCEPT !.meta =
                               [ZeroMeta EXCEPT !.mode = "INTEL_CMD_META_FS_RECT"]]
                     m2 == cmd_meta_set_src_for_img(m1, src,
                               IF raw_copy THEN rf.format ELSE src.layout.format,
                               "VK_IMAGE_ASPECT_COLOR")
                     m3 == [m2 EXCEPT !.meta.samples = dst.samples]
                 IN CopyImageLoop(m3, src, dst, raw_copy, rf.format, regions, 0)

----------------------------------------------------------------------------
(* vkCmdBlitImage *)

\* a variant that returns without a word
vkCmdBlitImage_Silent(m) == m

vkCmdBlitImage(m) == cmd_fail(m, "VK_ERROR_UNAVAILABLE")

----------------------------------------------------------------------------
(* vkCmdCopyBufferToImage *)

RECURSIVE BufferToImageLayers(_, _, _, _, _)
BufferToImageLayers(m, img, format, depth, j) ==
    IF j >= depth \/ m.crashed THEN m
    ELSE LET m1 == cmd_meta_set_dst_for_img([m EXCEPT !.j = j], img, format,
                       m.meta.dst.lod, m.meta.dst.layer)
             m2 == cmd_draw_meta(m1)
         IN BufferToImageLayers(
                [m2 EXCEPT !.meta.src.x = @ + m2.meta.width * m2.meta.height,
                           !.meta.dst.layer = @ + 1],
                img, format, depth, j + 1)

BufferToImageRegion(m, img, format, block_width, region) ==
    LET size == icd_format_get_size(format)
        \* region->bufferOffset / 0 when the format is undefined
        m0 == IF size = 0 THEN Undefined(m) ELSE m
        m1 == [m0 EXCEPT
                 !.meta.src.x = IF size = 0 THEN 0
                                ELSE region.bufferOffset \div size,
                 !.meta.dst.lod = region.imageSubresource.mipLevel,
                 !.meta.dst.layer = region.imageSubresource.arraySlice
                                        + region.imageOffset.z,
                 !.meta.dst.x = region.imageOffset.x \div block_width,
                 !.meta.dst.y = region.imageOffset.y \div block_width,
                 !.meta.width = region.imageExtent.width \div block_width,
                 !.meta.height = region.imageExtent.height \div block_width]
    IN IF m0.crashed THEN m0
       ELSE BufferToImageLayers(m1, img, format, region.imageExtent.depth, 0)

RECURSIVE BufferToImageLoop(_, _, _, _, _, _)
BufferToImageLoop(m, img, format, block_width, regions, i) ==
    IF i >= Len(regions) \/ m.crashed THEN m
    ELSE BufferToImageLoop(BufferToImageRegion([m EXCEPT !.i = i], img, format,
                                               block_width, regions[i + 1]),
                           img, format, block_width, regions, i + 1)

vkCmdCopyBufferToImage(m, buf, img, regions) ==
    LET m1 == [m EXCEPT !.meta =
                  [ZeroMeta EXCEPT !.mode = "INTEL_CMD_META_FS_RECT",
                                   !.shader_id = "INTEL_DEV_META_FS_COPY_MEM_TO_IMG",
                                   !.samples = img.samples]]
        rf == cmd_meta_img_raw_format(m1, img.layout.format)
        block_width == icd_format_get_block_width(img.layout.format)
    IN IF rf.m.crashed THEN rf.m
       ELSE BufferToImageLoop(cmd_meta_set_src_for_buf(rf.m, buf, rf.format),
                              img, rf.format, block_width, regions, 0)

----------------------------------------------------------------------------
(* vkCmdCopyImageToBuffer *)

RECURSIVE ImageToBufferLayers(_, _, _)
ImageToBufferLayers(m, depth, j) ==
    IF j >= depth \/ m.crashed THEN m
    ELSE LET m1 == cmd_draw_meta([m EXCEPT !.j = j])
         IN ImageToBufferLayers(
                [m1 EXCEPT !.meta.src.layer = @ + 1,
                           !.meta.dst.x = @ + m1.meta.width * m1.meta.height],
                depth, j + 1)

ImageToBufferRegion(m, img_format, block_width, region) ==
    LET m1 == [m EXCEPT
                 !.meta.src.lod = region.imageSubresource.mipLevel,
                 !.meta.src.layer = region.imageSubresource.arraySlice
                                        + region.imageOffset.z,
                 !.meta.src.x = region.imageOffset.x \div block_width,
                 !.meta.src.y = region.imageOffset.y \div block_width,
                 !.meta.dst.x = region.bufferOffset
                                    \div icd_format_get_size(img_format),
                 !.meta.width = region.imageExtent.width \div block_width,
                 !.meta.height = region.imageExtent.height \div block_width]
    IN ImageToBufferLayers(m1, region.imageExtent.depth, 0)

RECURSIVE ImageToBufferLoop(_, _, _, _, _)
ImageToBufferLoop(m, img_format, block_width, regions, i) ==
    IF i >= Len(regions) \/ m.crashed THEN m
    ELSE ImageToBufferLoop(ImageToBufferRegion([m EXCEPT !.i = i], img_format,
                                               block_width, regions[i + 1]),
                           img_format, block_width, regions, i + 1)

\* the switch on img_format: the shader and the format of the buffer view
ImageToBufferShader(img_format) ==
    CASE img_format = "VK_FORMAT_R8_UINT" ->
            [shader_id |-> "INTEL_DEV_META_VS_COPY_R8_TO_MEM",
             img_format |-> img_format, buf_format |-> "VK_FORMAT_R8G8B8A8_UINT"]
      [] img_format = "VK_FORMAT_R16_UINT" ->
            [shader_id |-> "INTEL_DEV_META_VS_COPY_R16_TO_MEM",
             img_format |-> img_format, buf_format |-> "VK_FORMAT_R8G8B8A8_UINT"]
      [] img_format = "VK_FORMAT_R32_UINT" ->
            [shader_id |-> "INTEL_DEV_META_VS_COPY_R32_TO_MEM",
             img_format |-> img_format,
             buf_format |-> "VK_FORMAT_R32G32B32A32_UINT"]
      [] img_format = "VK_FORMAT_R32G32_UINT" ->
            [shader_id |-> "INTEL_DEV_META_VS_COPY_R32G32_TO_MEM",
             img_format |-> img_format,
             buf_format |-> "VK_FORMAT_R32G32B32A32_UINT"]
      [] img_format = "VK_FORMAT_R32G32B32A32_UINT" ->
            [shader_id |-> "INTEL_DEV_META_VS_COPY_R32G32B32A32_TO_MEM",
             img_format |-> img_format,
             buf_format |-> "VK_FORMAT_R32G32B32A32_UINT"]
      [] OTHER ->
            [shader_id |-> "0", img_format |-> "VK_FORMAT_UNDEFINED",
             buf_format |-> "VK_FORMAT_UNDEFINED"]

vkCmdCopyImageToBuffer(m, img, buf, regions) ==
    LET m1 == [m EXCEPT !.meta =
                  [ZeroMeta EXCEPT !.mode = "INTEL_CMD_META_VS_POINTS"]]
        rf == cmd_meta_img_raw_format(m1, img.layout.format)
        block_width == icd_format_get_block_width(rf.format)
        sw == ImageToBufferShader(rf.format)
        m2 == [rf.m EXCEPT !.meta.shader_id = sw.shader_id]
    IN IF rf.m.crashed THEN rf.m
       ELSE IF sw.img_format = "VK_FORMAT_UNDEFINED"
               \/ (m.gen = 6 /\ icd_format_get_size(sw.img_format) < 4)
       THEN cmd_fail(m2, "VK_ERROR_UNKNOWN")
       ELSE LET m3 == cmd_meta_set_src_for_img(m2, img, sw.img_format,
                          "VK_IMAGE_ASPECT_COLOR")
                m4 == cmd_meta_set_dst_for_buf(m3, buf, sw.buf_format)
                m5 == [m4 EXCEPT !.meta.samples = 1]
            IN ImageToBufferLoop(m5, sw.img_format, block_width, regions, 0)

----------------------------------------------------------------------------
(* cmd_meta_clear_image and the colour clear *)

RECURSIVE ClearImageLayers(_, _, _, _, _, _)
\* a variant that leaves the depth/stencil view of the layer alive
ClearImageLayers_KeepView(m, img, format, range, array_size, j) ==
    IF j >= array_size \/ m.crashed THEN m
    ELSE LET m0 == [m EXCEPT !.j = j]
             m1 == IF range.aspect = "VK_IMAGE_ASPECT_COLOR"
                   THEN cmd_draw_meta(
                            cmd_meta_set_dst_for_img(m0, img, format,
                                m0.meta.dst.lod, m0.meta.dst.layer))
                   ELSE cmd_draw_meta(
                            cmd_meta_set_ds_state(
                                cmd_meta_set_ds_view(m0, img, m0.meta.dst.lod,
                                                     m0.meta.dst.layer),
                                range.aspect, m0.meta.clear_val[1]))
         IN ClearImageLayers([m1 EXCEPT !.meta.dst.layer = @ + 1],
                             img, format, range, array_size, j + 1)

ClearImageLayers(m, img, format, range, array_size, j) ==
    IF j >= array_size \/ m.crashed THEN m
    ELSE LET m0 == [m EXCEPT !.j = j]
             m1 == IF range.aspect = "VK_IMAGE_ASPECT_COLOR"
                   THEN cmd_draw_meta(
                            cmd_meta_set_dst_for_img(m0, img, format,
                                m0.meta.dst.lod, m0.meta.dst.layer))
                   ELSE LET d1 == cmd_meta_set_ds_view(m0, img,
                                      m0.meta.dst.lod, m0.meta.dst.layer)
                            d2 == cmd_meta_set_ds_state(d1, range.aspect,
                                      d1.meta.clear_val[1])
                            d3 == cmd_draw_meta(d2)
                        IN view_destroy(d3, d3.meta.ds.view)
         IN ClearImageLayers([m1 EXCEPT !.meta.dst.layer = @ + 1],
                             img, format, range, array_size, j + 1)

RECURSIVE ClearImageMips(_, _, _, _, _, _, _)
ClearImageMips(m, img, format, range, mip_levels, array_size, i) ==
    IF i >= mip_levels \/ m.crashed THEN m
    ELSE LET lod == range.baseMipLevel + i
             m1 == [m EXCEPT
                      !.i = i,
                      !.meta.dst.lod = lod,
                      !.meta.dst.layer = range.baseArraySlice,
                      !.meta.width = u_minify(img.layout.width0, lod),
                      !.meta.height = u_minify(img.layout.height0, lod)]
             m2 == IF m1.meta.ds.op # "INTEL_CMD_META_DS_NOP"
                      /\ ~intel_img_can_enable_hiz(img, lod)
                   THEN m1
                   ELSE ClearImageLayers(m1, img, format, range, array_size, 0)
         IN ClearImageMips(m2, img, format, range, mip_levels, array_size, i + 1)

\* a variant that takes the counts of the range as they are
cmd_meta_clear_image_Unclamped(m, img, format, range) ==
    IF range.baseMipLevel >= img.mip_levels
       \/ range.baseArraySlice >= img.array_size
    THEN m
    ELSE ClearImageMips(m, img, format, range, range.mipLevels,
                        range.arraySize, 0)

cmd_meta_clear_image(m, img, format, range) ==
    IF range.baseMipLevel >= img.mip_levels
       \/ range.baseArraySlice >= img.array_size
    THEN m
    ELSE LET mip_levels ==
                 IF img.mip_levels - range.baseMipLevel > range.mipLevels
                 THEN range.mipLevels
                 ELSE img.mip_levels - range.baseMipLevel
             array_size ==
                 IF img.array_size - range.baseArraySlice > range.arraySize
                 THEN range.arraySize
                 ELSE img.array_size - range.baseArraySlice
         IN ClearImageMips(m, img, format, range, mip_levels, array_size, 0)

\* r numbers the ranges of the call
RECURSIVE ClearColorRanges(_, _, _, _, _)
ClearColorRanges(m, img, format, ranges, r) ==
    IF r >= Len(ranges) \/ m.crashed THEN m
    ELSE ClearColorRanges(
             cmd_meta_clear_image([m EXCEPT !.r = r], img, format, ranges[r + 1]),
             img, format, ranges, r + 1)

cmd_meta_clear_color_image(m, img, color, ranges) ==
    LET m1 == [m EXCEPT !.meta =
                  [ZeroMeta EXCEPT !.mode = "INTEL_CMD_META_FS_RECT",
                                   !.shader_id = "INTEL_DEV_META_FS_CLEAR_COLOR",
                                   !.samples = img.samples,
                                   !.clear_val[0] = color[0],
                                   !.clear_val[1] = color[1],
                                   !.clear_val[2] = color[2],
                                   !.clear_val[3] = color[3]]]
    IN ClearColorRanges(m1, img, img.layout.format, ranges, 0)

vkCmdClearColorImage(m, img, color, ranges) ==
    cmd_meta_clear_color_image(m, img, color, ranges)

----------------------------------------------------------------------------
(* Depth/stencil clears, attachment clears, the Hi-Z operation *)

RECURSIVE ClearDsRanges(_, _, _, _)
ClearDsRanges(m, img, ranges, r) ==
    IF r >= Len(ranges) \/ m.crashed THEN m
    ELSE ClearDsRanges(
             cmd_meta_clear_image([m EXCEPT !.r = r], img, img.layout.format,
                                  ranges[r + 1]),
             img, ranges, r + 1)

\* depth is the bit pattern u_fui(depth)
cmd_meta_clear_depth_stencil_image(m, img, imageLayout, depth, stencil, ranges) ==
    LET m1 == [m EXCEPT !.meta =
                  [ZeroMeta EXCEPT !.mode = "INTEL_CMD_META_DEPTH_STENCIL_RECT",
                                   !.shader_id = "INTEL_DEV_META_FS_CLEAR_DEPTH",
                                   !.samples = img.samples,
                                   !.clear_val[0] = depth,
                                   !.clear_val[1] = stencil,
                                   !.ds.optimal =
                                       imageLayout \in
                                         {"VK_IMAGE_LAYOUT_DEPTH_STENCIL_ATTACHMENT_OPTIMAL",
                                          "VK_IMAGE_LAYOUT_DEPTH_STENCIL_READ_ONLY_OPTIMAL"}]]
    IN ClearDsRanges(m1, img, ranges, 0)

vkCmdClearDepthStencilImage(m, img, imageLayout, depth, stencil, ranges) ==
    cmd_meta_clear_depth_stencil_image(m, img, imageLayout, depth, stencil, ranges)

\* view is the attachment view bound as colour attachment of the subpass
RECURSIVE vkCmdClearColorAttachment(_, _, _, _, _)
vkCmdClearColorAttachment(m, view, color, rects, i) ==
    IF i >= Len(rects) \/ m.crashed THEN m
    ELSE LET range == [aspect |-> "VK_IMAGE_ASPECT_COLOR",
                       baseMipLevel |-> view.mipLevel,
                       mipLevels |-> 1,
                       baseArraySlice |-> rects[i + 1].offset.z,
                       arraySize |-> rects[i + 1].extent.depth]
         IN vkCmdClearColorAttachment(
                cmd_meta_clear_color_image([m EXCEPT !.rect = i], view.img, color,
                                           <<range>>),
                view, color, rects, i + 1)

\* view is the attachment view bound as depth/stencil attachment
RECURSIVE vkCmdClearDepthStencilAttachment(_, _, _, _, _, _, _, _)
vkCmdClearDepthStencilAttachment(m, view, imageAspectMask, imageLayout, depth, stencil, rects, i) ==
    IF i >= Len(rects) \/ m.crashed THEN m
    ELSE LET range == [aspect |-> "VK_IMAGE_ASPECT_DEPTH",
                       baseMipLevel |-> 0,
                       mipLevels |-> 1,
                       baseArraySlice |-> rects[i + 1].offset.z,
                       arraySize |-> rects[i + 1].extent.depth]
             m0 == [m EXCEPT !.rect = i]
             m1 == IF "VK_IMAGE_ASPECT_DEPTH_BIT" \in imageAspectMask
                   THEN cmd_meta_clear_depth_stencil_image(m0, view.img,
                            imageLayout, depth, stencil, <<range>>)
                   ELSE m0
             m2 == IF "VK_IMAGE_ASPECT_STENCIL_BIT" \in imageAspectMask
                      /\ ~m1.crashed
                   THEN cmd_meta_clear_depth_stencil_image(m1, view.img,
                            imageLayout, depth, stencil,
                            <<[range EXCEPT !.aspect = "VK_IMAGE_ASPECT_STENCIL"]>>)
                   ELSE m1
         IN vkCmdClearDepthStencilAttachment(m2, view, imageAspectMask,
                imageLayout, depth, stencil, rects, i + 1)

cmd_meta_ds_op(m, op, img, range) ==
    IF img.layout.aux # "INTEL_LAYOUT_AUX_HIZ" THEN m
    ELSE IF range.aspect # "VK_IMAGE_ASPECT_DEPTH" THEN m
    ELSE cmd_meta_clear_image(
             [m EXCEPT !.meta =
                 [ZeroMeta EXCEPT !.mode = "INTEL_CMD_META_DEPTH_STENCIL_RECT",
                                  !.samples = img.samples,
                                  !.ds.aspect = "VK_IMAGE_ASPECT_DEPTH",
                                  !.ds.op = op,
                                  !.ds.optimal = TRUE]],
             img, img.layout.format, range)

----------------------------------------------------------------------------
(* vkCmdResolveImage *)

RECURSIVE ResolveLayers(_, _, _, _, _)
ResolveLayers(m, dst, format, region, arraySlice) ==
    IF arraySlice >= region.extent.depth \/ m.crashed THEN m
    ELSE LET m1 == [m EXCEPT
                      !.j = arraySlice,
                      !.meta.src.lod = region.srcSubresource.mipLevel,
                      !.meta.src.layer = region.srcSubresource.arraySlice
                                             + arraySlice,
                      !.meta.src.x = region.srcOffset.x,
                      !.meta.src.y = region.srcOffset.y,
                      !.meta.dst.lod = region.destSubresource.mipLevel,
                      !.meta.dst.layer = region.destSubresource.arraySlice
                                             + arraySlice,
                      !.meta.dst.x = region.destOffset.x,
                      !.meta.dst.y = region.destOffset.y,
                      !.meta.width = region.extent.width,
                      !.meta.height = region.extent.height]
             m2 == cmd_meta_set_dst_for_img(m1, dst, format,
                       m1.meta.dst.lod, m1.meta.dst.layer)
         IN ResolveLayers(cmd_draw_meta(m2), dst, format, region, arraySlice + 1)

RECURSIVE ResolveLoop(_, _, _, _, _)
ResolveLoop(m, dst, format, regions, i) ==
    IF i >= Len(regions) \/ m.crashed THEN m
    ELSE ResolveLoop(ResolveLayers([m EXCEPT !.i = i], dst, format,
                                   regions[i + 1], 0),
                     dst, format, regions, i + 1)

\* a switch without the case for 8 samples
ResolveShader_No8(samples) ==
    CASE samples = 4  -> "INTEL_DEV_META_FS_RESOLVE_4X"
      [] samples = 16 -> "INTEL_DEV_META_FS_RESOLVE_16X"
      [] OTHER        -> "INTEL_DEV_META_FS_RESOLVE_2X"

\* the switch on src->samples
ResolveShader(samples) ==
    CASE samples = 4  -> "INTEL_DEV_META_FS_RESOLVE_4X"
      [] samples = 8  -> "INTEL_DEV_META_FS_RESOLVE_8X"
      [] samples = 16 -> "INTEL_DEV_META_FS_RESOLVE_16X"
      [] OTHER        -> "INTEL_DEV_META_FS_RESOLVE_2X"

\* a variant that reports the mismatch and goes on
vkCmdResolveImage_NoReturn(m, src, dst, regions) ==
    LET m0 == IF src.samples <= 1 \/ dst.samples > 1
                 \/ src.layout.format # dst.layout.format
              THEN cmd_fail(m, "VK_ERROR_UNKNOWN") ELSE m
        m1 == [m0 EXCEPT !.meta =
                  [ZeroMeta EXCEPT !.mode = "INTEL_CMD_META_FS_RECT",
                                   !.shader_id = ResolveShader(src.samples),
                                   !.samples = 1]]
        rf == cmd_meta_img_raw_format(m1, src.layout.format)
    IN IF rf.m.crashed THEN rf.m
       ELSE ResolveLoop(
                cmd_meta_set_src_for_img(rf.m, src, rf.format,
                                         "VK_IMAGE_ASPECT_COLOR"),
                dst, rf.format, regions, 0)

vkCmdResolveImage(m, src, dst, regions) ==
    IF src.samples <= 1 \/ dst.samples > 1
       \/ src.layout.format # dst.layout.format
    THEN cmd_fail(m, "VK_ERROR_UNKNOWN")
    ELSE LET m1 == [m EXCEPT !.meta =
                       [ZeroMeta EXCEPT !.mode = "INTEL_CMD_META_FS_RECT",
                                        !.shader_id = ResolveShader(src.samples),
                                        !.samples = 1]]
             rf == cmd_meta_img_raw_format(m1, src.layout.format)
         IN IF rf.m.crashed THEN rf.m
            ELSE ResolveLoop(
                     cmd_meta_set_src_for_img(rf.m, src, rf.format,
                                              "VK_IMAGE_ASPECT_COLOR"),
                     dst, rf.format, regions, 0)

----------------------------------------------------------------------------
(* Inputs of the calls *)

BufOffsets == {0, 4, 6}
BufSizes == {4, 8, 5}
FillData == {0, 7}
StateOffsets == {0, 32}

BufferCopies ==
    {[srcOffset |-> 0, destOffset |-> 8, copySize |-> 4],
     [srcOffset |-> 4, destOffset |-> 0, copySize |-> 8],
     [srcOffset |-> 2, destOffset |-> 8, copySize |-> 4],
     [srcOffset |-> 0, destOffset |-> 6, copySize |-> 4],
     [srcOffset |-> 0, destOffset |-> 8, copySize |-> 3]}

\* the bytes of the buffers before anything is submitted, all different
InitialMemory ==
    [bo \in {b.bo : b \in Buffers} |->
        LET b == CHOOSE x \in Buffers : x.bo = bo
        IN [a \in 0..(b.size - 1) |-> 16 * bo + a + 1]]

\* the device runs a buffer-copy draw: width elements of the shader's unit
\* (a dword, or a byte for the unaligned shader) go from element src.x of
\* the source to element dst.x of the destination
ExecuteDraw(mm, d) ==
    LET unit == IF d.meta.shader_id = "INTEL_DEV_META_VS_COPY_MEM" THEN 4 ELSE 1
        s == d.meta.src.reloc_target
        t == d.meta.dst.reloc_target
        first == unit * d.meta.dst.x
        last == unit * (d.meta.dst.x + d.meta.width) - 1
    IN IF ~d.meta.src.valid \/ ~d.meta.dst.valid THEN mm
       ELSE [mm EXCEPT ![t] =
               [a \in DOMAIN mm[t] |->
                   IF a >= first /\ a <= last
                   THEN LET sa == unit * d.meta.src.x + (a - first)
                        IN IF sa \in DOMAIN mm[s] THEN mm[s][sa] ELSE 0
                   ELSE mm[t][a]]]

RECURSIVE Execute(_, _, _)
Execute(mm, ds, k) ==
    IF k > Len(ds) THEN mm ELSE Execute(ExecuteDraw(mm, ds[k]), ds, k + 1)

\* byte ranges <<bo, offset, size>> of the buffers
CopyRanges ==
    {<<1, 0, 4>>, <<1, 8, 4>>, <<2, 4, 4>>, <<1, 0, 8>>, <<1, 8, 8>>, <<2, 0, 8>>,
     <<1, 1, 5>>, <<2, 3, 5>>}

\* a copy from one of the ranges to another of the same size
RangeCopies ==
    {[src |-> CHOOSE b \in Buffers : b.bo = A[1],
      dst |-> CHOOSE b \in Buffers : b.bo = B[1],
      region |-> [srcOffset |-> A[2], destOffset |-> B[2], copySize |-> A[3]]] :
        <<A, B>> \in {p \in CopyRanges \X CopyRanges :
                         p[1] # p[2] /\ p[1][3] = p[2][3]}}

\* lists of at most MaxRegions elements of S
ListsOf(S) == UNION {[1..n -> S] : n \in 0..MaxRegions}

NoEnc == [dw2 |-> {}, dw4 |-> {}, dw5 |-> {}]

\* bits of the encoder outside the fields the adjuster touches
TiledEnc == [dw2 |-> {5, 15, 30, 31}, dw4 |-> {0, 7, 30}, dw5 |-> {4, 5}]

\* the encoder leaves bits in the X/Y offset fields of dword 5
OffsetEnc == [dw2 |-> {}, dw4 |-> {3}, dw5 |-> {4, 22, 26}]

Image(type, samples, format, array_size, mip_levels, w, h, bo) ==
    [type |-> type, samples |-> samples, array_size |-> array_size,
     mip_levels |-> mip_levels, bo |-> bo, hiz_levels |-> {}, enc |-> NoEnc,
     layout |-> [format |-> format, width0 |-> w, height0 |-> h,
                 block_width |-> icd_format_get_block_width(format),
                 block_height |-> FormatBlockHeight(format),
                 aux |-> "INTEL_LAYOUT_AUX_NONE",
                 slice_stride |-> 4096, slice_dx |-> 48, slice_dy |-> 12]]

Img2D == Image("VK_IMAGE_TYPE_2D", 1, "VK_FORMAT_R8G8B8A8_UNORM", 3, 2, 8, 8, 11)
Img2Du == Image("VK_IMAGE_TYPE_2D", 1, "VK_FORMAT_R8G8B8A8_UINT", 3, 2, 8, 8, 12)
Img2DMS == Image("VK_IMAGE_TYPE_2D", 4, "VK_FORMAT_R8G8B8A8_UNORM", 3, 1, 8, 8, 13)
Img1D == Image("VK_IMAGE_TYPE_1D", 1, "VK_FORMAT_R32_UINT", 3, 2, 8, 1, 14)
Img3D == Image("VK_IMAGE_TYPE_3D", 1, "VK_FORMAT_R32G32_UINT", 1, 2, 8, 8, 15)
ImgBC == Image("VK_IMAGE_TYPE_2D", 1, "VK_FORMAT_BC1_RGB_UNORM", 3, 2, 16, 12, 16)
Img24 == Image("VK_IMAGE_TYPE_2D", 1, "VK_FORMAT_R8G8B8_UNORM", 3, 2, 8, 8, 17)
Img8 == Image("VK_IMAGE_TYPE_2D", 1, "VK_FORMAT_R8_UINT", 3, 2, 8, 8, 18)

\* whether assert() is compiled in shows only where the raw format is undefined
BuildsOf(img) ==
    IF icd_format_get_size(img.layout.format) \in {1, 2, 4, 8, 16}
    THEN {DebugBuild} ELSE Builds

Sub(mip, slice) == [mipLevel |-> mip, arraySlice |-> slice]
Off(x, y, z) == [x |-> x, y |-> y, z |-> z]
Ext(w, h, d) == [width |-> w, height |-> h, depth |-> d]

\* VkImageCopy / VkImageResolve
ImageRegions ==
    {[srcSubresource |-> Sub(0, 0), srcOffset |-> Off(0, 0, 0),
      destSubresource |-> Sub(0, 0), destOffset |-> Off(0, 0, 0),
      extent |-> Ext(4, 4, 1)],
     [srcSubresource |-> Sub(0, 0), srcOffset |-> Off(0, 0, 0),
      destSubresource |-> Sub(0, 1), destOffset |-> Off(0, 0, 0),
      extent |-> Ext(2, 2, 2)],
     [srcSubresource |-> Sub(1, 0), srcOffset |-> Off(4, 2, 1),
      destSubresource |-> Sub(1, 1), destOffset |-> Off(0, 4, 0),
      extent |-> Ext(4, 2, 1)]}

CopyImagePairs ==
    {<<Img2D, Img2D>>, <<Img2D, Img2Du>>, <<Img2DMS, Img2D>>, <<Img2D, Img2DMS>>,
     <<Img2DMS, Img2DMS>>, <<Img1D, Img1D>>, <<Img3D, Img3D>>, <<Img1D, Img2D>>,
     <<ImgBC, Img2D>>, <<ImgBC, ImgBC>>, <<Img24, Img24>>}

\* VkBufferImageCopy
BufferImageRegions ==
    {[bufferOffset |-> 0, imageSubresource |-> Sub(0, 0),
      imageOffset |-> Off(0, 0, 0), imageExtent |-> Ext(8, 8, 1)],
     [bufferOffset |-> 16, imageSubresource |-> Sub(0, 1),
      imageOffset |-> Off(4, 4, 0), imageExtent |-> Ext(4, 8, 2)],
     [bufferOffset |-> 64, imageSubresource |-> Sub(1, 0),
      imageOffset |-> Off(0, 0, 1), imageExtent |-> Ext(4, 4, 1)]}

BufferImageImages == {Img2D, ImgBC, Img24, Img8}

Resolvable(samples, format) ==
    Image("VK_IMAGE_TYPE_2D", samples, format, 3, 2, 8, 8, 20 + samples)

ResolvePairs ==
    {<<Resolvable(s, "VK_FORMAT_R8G8B8A8_UNORM"), d>> :
        s \in {1, 2, 4, 8, 16},
        d \in {Img2D, Img2Du, Img2DMS}}

\* block-compressed textures: the formats, the sizes of the base level and the
\* bits the attachment encoder sets
CompressedFormats ==
    {"VK_FORMAT_BC1_RGB_UNORM", "VK_FORMAT_ASTC_5x4_UNORM",
     "VK_FORMAT_ASTC_8x5_UNORM"}

TextureSizes == {1, 4, 5, 130}

CompressedImages ==
    {[Image("VK_IMAGE_TYPE_2D", 1, f, 3, 2, w, h, 19) EXCEPT !.enc = e] :
        f \in CompressedFormats, w \in TextureSizes, h \in TextureSizes,
        e \in {NoEnc, TiledEnc, OffsetEnc}}

\* one region that covers a mip level of one or two slices
UploadRegions ==
    {[bufferOffset |-> 0, imageSubresource |-> Sub(mip, slice),
      imageOffset |-> Off(0, 0, 0), imageExtent |-> Ext(4, 4, d)] :
        mip \in {0, 1}, slice \in {0, 1}, d \in {1, 2}}

\* the views of an upload are constructed, or the first or second of the
\* destination is not
UploadOracles ==
    {o \in Oracles : /\ o[1] = "VK_SUCCESS"
                     /\ \A k \in 1..MaxViewOrd :
                           o[k] # "VK_ERROR_OUT_OF_DEVICE_MEMORY"
                     /\ Cardinality({k \in 1..MaxViewOrd :
                                        o[k] # "VK_SUCCESS"}) <= 1
                     /\ \A k \in 4..MaxViewOrd : o[k] = "VK_SUCCESS"}

\* the views of a submitted copy are constructed, or the first is not
SubmitOracles ==
    {o \in Oracles : /\ \A k \in 2..MaxViewOrd : o[k] = "VK_SUCCESS"
                     /\ o[1] # "VK_ERROR_OUT_OF_DEVICE_MEMORY"}

ClearImages == {Img2D, Img2DMS}

ClearColors == {[k \in 0..3 |-> k + 1], [k \in 0..3 |-> 9 - 2 * k]}

\* VkImageSubresourceRange
ColorRange(baseMip, mips, baseSlice, slices) ==
    [aspect |-> "VK_IMAGE_ASPECT_COLOR", baseMipLevel |-> baseMip,
     mipLevels |-> mips, baseArraySlice |-> baseSlice, arraySize |-> slices]

ColorRanges ==
    {ColorRange(0, 1, 0, 1), ColorRange(0, 3, 1, 4), ColorRange(1, 1, 2, 1),
     ColorRange(2, 1, 0, 1), ColorRange(0, 2, 3, 1)}

----------------------------------------------------------------------------
(* The command buffer and the calls made on it *)

NoCall == [op |-> "none"]

Init ==
    /\ cmd \in [gen : Gens, result : {"VK_SUCCESS"}]
    /\ pc = "idle"
    /\ call = NoCall
    /\ meta = ZeroMeta
    /\ draws = <<>>
    /\ views = <<>>
    /\ destroys = <<>>
    /\ binds = <<>>
    /\ live = {}
    /\ fails = <<>>
    /\ mem = InitialMemory
    /\ submitted = <<>>

\* the handler has run on m: its effects become the state
Finish(c, m) ==
    /\ pc' = IF m.crashed THEN "crashed" ELSE "done"
    /\ call' = c
    /\ cmd' = [cmd EXCEPT !.result = m.result]
    /\ meta' = m.meta
    /\ draws' = m.draws
    /\ views' = m.views
    /\ destroys' = m.destroys
    /\ binds' = m.binds
    /\ live' = m.live
    /\ fails' = m.fails
    /\ UNCHANGED <<mem, submitted>>

FillBuffer ==
    /\ pc = "idle"
    /\ \E dst \in Buffers, off \in BufOffsets, size \in BufSizes,
          data \in FillData, oracle \in Oracles :
         Finish([op |-> "FillBuffer", dst |-> dst, destOffset |-> off,
                 size |-> size, data |-> data, result0 |-> cmd.result],
                vkCmdFillBuffer(Machine(cmd, oracle, DebugBuild), dst, off, size, data))

UpdateBuffer ==
    /\ pc = "idle"
    /\ \E dst \in Buffers, off \in BufOffsets, size \in BufSizes,
          offset \in StateOffsets, oracle \in Oracles :
         Finish([op |-> "UpdateBuffer", dst |-> dst, destOffset |-> off,
                 size |-> size, offset |-> offset, result0 |-> cmd.result],
                vkCmdUpdateBuffer(Machine(cmd, oracle, DebugBuild), dst, off, size, offset))

CopyBuffer ==
    /\ pc = "idle"
    /\ \E src \in Buffers, dst \in Buffers, regions \in ListsOf(BufferCopies),
          oracle \in Oracles :
         /\ src # dst
         /\ Finish([op |-> "CopyBuffer", src |-> src, dst |-> dst,
                    regions |-> regions, result0 |-> cmd.result],
                   vkCmdCopyBuffer(Machine(cmd, oracle, DebugBuild), src, dst, regions))

CopyImage ==
    /\ pc = "idle"
    /\ \E pair \in CopyImagePairs, regions \in ListsOf(ImageRegions),
          oracle \in Oracles :
         \E build \in BuildsOf(pair[1]) :
            Finish([op |-> "CopyImage", src |-> pair[1], dst |-> pair[2],
                    regions |-> regions, build |-> build, result0 |-> cmd.result],
                   vkCmdCopyImage(Machine(cmd, oracle, build), pair[1], pair[2],
                                  regions))

BlitImage ==
    /\ pc = "idle"
    /\ \E pair \in CopyImagePairs, regions \in ListsOf(ImageRegions),
          filter \in {"VK_TEX_FILTER_NEAREST", "VK_TEX_FILTER_LINEAR"} :
         Finish([op |-> "BlitImage", src |-> pair[1], dst |-> pair[2],
                 regions |-> regions, filter |-> filter,
                 result0 |-> cmd.result],
                vkCmdBlitImage(Machine(cmd, [k \in {} |-> "VK_SUCCESS"], DebugBuild)))

CopyBufferToImage ==
    /\ pc = "idle"
    /\ \E buf \in Buffers, img \in BufferImageImages,
          regions \in ListsOf(BufferImageRegions), oracle \in Oracles :
         \E build \in BuildsOf(img) :
            Finish([op |-> "CopyBufferToImage", buf |-> buf, img |-> img,
                    regions |-> regions, build |-> build, result0 |-> cmd.result],
                   vkCmdCopyBufferToImage(Machine(cmd, oracle, build), buf, img,
                                          regions))

\* vkCmdCopyBufferToImage as a texture upload: one region to a
\* block-compressed image
UploadCompressed ==
    /\ pc = "idle"
    /\ \E buf \in Buffers, img \in CompressedImages, region \in UploadRegions,
          oracle \in UploadOracles :
         /\ buf.bo = 1
         /\ Finish([op |-> "CopyBufferToImage", buf |-> buf, img |-> img,
                    regions |-> <<region>>, build |-> DebugBuild,
                    result0 |-> cmd.result],
                   vkCmdCopyBufferToImage(Machine(cmd, oracle, DebugBuild), buf,
                                          img, <<region>>))

CopyImageToBuffer ==
    /\ pc = "idle"
    /\ \E buf \in Buffers, img \in BufferImageImages,
          regions \in ListsOf(BufferImageRegions), oracle \in Oracles :
         \E build \in BuildsOf(img) :
            Finish([op |-> "CopyImageToBuffer", buf |-> buf, img |-> img,
                    regions |-> regions, build |-> build, result0 |-> cmd.result],
                   vkCmdCopyImageToBuffer(Machine(cmd, oracle, build), img, buf,
                                          regions))

ClearColorImage ==
    /\ pc = "idle"
    /\ \E img \in ClearImages, color \in ClearColors,
          ranges \in ListsOf(ColorRanges), oracle \in Oracles :
         Finish([op |-> "ClearColorImage", img |-> img, color |-> color,
                 ranges |-> ranges, result0 |-> cmd.result],
                vkCmdClearColorImage(Machine(cmd, oracle, DebugBuild), img, color,
                                     ranges))

\* depth/stencil images; the second has a Hi-Z surface that mip 0 can enable
ImgDS == Image("VK_IMAGE_TYPE_2D", 1, "VK_FORMAT_D32_SFLOAT", 3, 2, 8, 8, 31)
ImgHiz == [ImgDS EXCEPT !.bo = 32, !.hiz_levels = {0},
                        !.layout.aux = "INTEL_LAYOUT_AUX_HIZ"]

DsImages == {ImgDS, ImgHiz}

DsRange(aspect, mip, mips, slice, slices) ==
    [aspect |-> aspect, baseMipLevel |-> mip, mipLevels |-> mips,
     baseArraySlice |-> slice, arraySize |-> slices]

DsRanges ==
    {DsRange("VK_IMAGE_ASPECT_DEPTH", 0, 1, 0, 2),
     DsRange("VK_IMAGE_ASPECT_STENCIL", 0, 1, 1, 4),
     DsRange("VK_IMAGE_ASPECT_DEPTH", 0, 2, 2, 1),
     DsRange("VK_IMAGE_ASPECT_DEPTH", 2, 1, 0, 1)}

DsLayouts == {"VK_IMAGE_LAYOUT_GENERAL",
              "VK_IMAGE_LAYOUT_DEPTH_STENCIL_ATTACHMENT_OPTIMAL"}

\* assert() plays no part in the depth/stencil paths
DsBuilds == {b \in Builds : b.asserts}

DsOps == {"INTEL_CMD_META_DS_NOP", "INTEL_CMD_META_DS_HIZ_CLEAR",
          "INTEL_CMD_META_DS_HIZ_RESOLVE"}

\* VkRect3D
ClearRects ==
    {[offset |-> Off(0, 0, 0), extent |-> Ext(8, 8, 1)],
     [offset |-> Off(2, 1, 1), extent |-> Ext(4, 3, 4)]}

\* the attachment view the framebuffer binds at the index the subpass names
ColorAttachmentViews == {[img |-> Img2D, mipLevel |-> l] : l \in 0..1}
DsAttachmentViews == {[img |-> ImgDS, mipLevel |-> l] : l \in 0..1}

AspectMasks == SUBSET {"VK_IMAGE_ASPECT_DEPTH_BIT", "VK_IMAGE_ASPECT_STENCIL_BIT"}

ClearDepthStencilImage ==
    /\ pc = "idle"
    /\ \E img \in DsImages, imageLayout \in DsLayouts,
          ranges \in ListsOf(DsRanges), oracle \in Oracles, build \in DsBuilds :
         Finish([op |-> "ClearDepthStencilImage", img |-> img,
                 imageLayout |-> imageLayout, ranges |-> ranges,
                 oracle |-> oracle, result0 |-> cmd.result],
                vkCmdClearDepthStencilImage(Machine(cmd, oracle, build), img,
                                            imageLayout, 3, 5, ranges))

ClearColorAttachment ==
    /\ pc = "idle"
    /\ \E view \in ColorAttachmentViews, color \in ClearColors,
          rects \in ListsOf(ClearRects), oracle \in Oracles :
         Finish([op |-> "ClearColorAttachment", view |-> view, color |-> color,
                 rects |-> rects, result0 |-> cmd.result],
                vkCmdClearColorAttachment(Machine(cmd, oracle, DebugBuild), view,
                                          color, rects, 0))

ClearDepthStencilAttachment ==
    /\ pc = "idle"
    /\ \E view \in DsAttachmentViews, imageAspectMask \in AspectMasks,
          rects \in ListsOf(ClearRects), oracle \in Oracles, build \in DsBuilds :
         Finish([op |-> "ClearDepthStencilAttachment", view |-> view,
                 imageAspectMask |-> imageAspectMask, rects |-> rects,
                 oracle |-> oracle, result0 |-> cmd.result],
                vkCmdClearDepthStencilAttachment(Machine(cmd, oracle, build),
                    view, imageAspectMask,
                    "VK_IMAGE_LAYOUT_DEPTH_STENCIL_ATTACHMENT_OPTIMAL", 3, 5,
                    rects, 0))

DsOp ==
    /\ pc = "idle"
    /\ \E op \in DsOps, img \in DsImages, range \in DsRanges,
          oracle \in Oracles, build \in DsBuilds :
         Finish([op |-> "DsOp", ds_op |-> op, img |-> img, range |-> range,
                 oracle |-> oracle, result0 |-> cmd.result],
                cmd_meta_ds_op(Machine(cmd, oracle, build), op, img, range))

ResolveImage ==
    /\ pc = "idle"
    /\ \E pair \in ResolvePairs, regions \in ListsOf(ImageRegions),
          oracle \in Oracles :
         Finish([op |-> "ResolveImage", src |-> pair[1], dst |-> pair[2],
                 regions |-> regions, result0 |-> cmd.result],
                vkCmdResolveImage(Machine(cmd, oracle, DebugBuild), pair[1], pair[2],
                                  regions))

\* vkBeginCommandBuffer on a recorded buffer: the recording is dropped and the
\* error field is success again; the stack frame of the last call is long gone
ResetCommandBuffer ==
    /\ pc = "done"
    /\ pc' = "idle"
    /\ call' = NoCall
    /\ cmd' = [cmd EXCEPT !.result = "VK_SUCCESS"]
    /\ meta' = ZeroMeta
    /\ draws' = <<>>
    /\ views' = <<>>
    /\ destroys' = <<>>
    /\ binds' = <<>>
    /\ live' = {}
    /\ fails' = <<>>
    /\ UNCHANGED <<mem, submitted>>

\* vkCmdCopyBuffer of one region between two ranges that do not overlap
CopyBufferRange ==
    /\ pc = "idle"
    /\ \E c \in RangeCopies, oracle \in SubmitOracles :
         Finish([op |-> "CopyBuffer", src |-> c.src, dst |-> c.dst,
                 regions |-> <<c.region>>, result0 |-> cmd.result],
                vkCmdCopyBuffer(Machine(cmd, oracle, DebugBuild), c.src, c.dst,
                                <<c.region>>))

\* vkQueueSubmit of a command buffer that recorded a buffer copy without
\* error: the device runs its draws, and the buffer can be recorded again
QueueSubmit ==
    /\ pc = "done"
    /\ call.op = "CopyBuffer"
    /\ cmd.result = "VK_SUCCESS"
    /\ Len(submitted) < MaxSubmits
    /\ mem' = Execute(mem, draws, 1)
    /\ submitted' = Append(submitted, call)
    /\ pc' = "idle"
    /\ call' = NoCall
    /\ meta' = ZeroMeta
    /\ draws' = <<>>
    /\ views' = <<>>
    /\ destroys' = <<>>
    /\ binds' = <<>>
    /\ live' = {}
    /\ fails' = <<>>
    /\ UNCHANGED cmd

Next ==
    \/ FillBuffer \/ UpdateBuffer \/ CopyBuffer
    \/ CopyImage \/ BlitImage \/ CopyBufferToImage \/ CopyImageToBuffer
    \/ ClearColorImage \/ ResolveImage
    \/ ClearDepthStencilImage \/ ClearColorAttachment
    \/ ClearDepthStencilAttachment \/ DsOp
    \/ ResetCommandBuffer

Spec == Init /\ [][Next]_vars

NextUpload == UploadCompressed \/ ResetCommandBuffer

SpecUpload == Init /\ [][NextUpload]_vars

NextCopyImage == CopyImage \/ ResetCommandBuffer

SpecCopyImage == Init /\ [][NextCopyImage]_vars

NextResolve == ResolveImage \/ ResetCommandBuffer

SpecResolve == Init /\ [][NextResolve]_vars

NextClear == ClearColorImage \/ ResetCommandBuffer

SpecClear == Init /\ [][NextClear]_vars

NextRoundTrip == CopyBufferRange \/ QueueSubmit \/ ResetCommandBuffer

SpecRoundTrip == Init /\ [][NextRoundTrip]_vars

NextDepthStencil == ClearDepthStencilImage \/ DsOp \/ ResetCommandBuffer

SpecDepthStencil == Init /\ [][NextDepthStencil]_vars

NextAttachment ==
    ClearColorAttachment \/ ClearDepthStencilAttachment \/ ResetCommandBuffer

SpecAttachment == Init /\ [][NextAttachment]_vars

NextBlit == BlitImage \/ ResetCommandBuffer

SpecBlit == Init /\ [][NextBlit]_vars

NextBuf == FillBuffer \/ UpdateBuffer \/ CopyBuffer \/ ResetCommandBuffer

SpecBuf == Init /\ [][NextBuf]_vars

----------------------------------------------------------------------------
(* Vocabulary of the properties *)

Done == pc = "done"

Multiple4(n) == n % 4 = 0

ValidationErrors == {"VK_ERROR_UNKNOWN", "VK_ERROR_UNAVAILABLE"}

\* positions of the validation errors among the errors the call reported
ValidationFails == {k \in 1..Len(fails) : fails[k] \in ValidationErrors}

AllViewsOk == \A k \in 1..Len(views) : views[k].res = "VK_SUCCESS"

\* the draws dispatched in iteration i of the region loop
DrawsOfRegion(i) == {k \in 1..Len(draws) : draws[k].i = i}

RegionAligned(region) ==
    /\ Multiple4(region.srcOffset)
    /\ Multiple4(region.destOffset)
    /\ Multiple4(region.copySize)

UnalignedRegions ==
    {i \in 1..Len(call.regions) : ~RegionAligned(call.regions[i])}

\* fill and update: an unaligned request fails and draws nothing, an aligned
\* one draws once and reports nothing unless a view fails
FillUpdateBoundary ==
    call.op \in {"FillBuffer", "UpdateBuffer"} =>
        IF Multiple4(call.destOffset) /\ Multiple4(call.size)
        THEN /\ Len(draws) = 1
             /\ draws[1].meta.dst.x = call.destOffset \div 4
             /\ draws[1].meta.width = call.size \div 4
             /\ AllViewsOk => (fails = <<>> /\ cmd.result = "VK_SUCCESS")
        ELSE /\ fails = <<"VK_ERROR_UNKNOWN">>
             /\ cmd.result = "VK_ERROR_UNKNOWN"
             /\ draws = <<>>

\* buffer copy where an unaligned region fails
CopyBoundaryStrict ==
    /\ \A i \in 1..Len(call.regions) :
          Cardinality(DrawsOfRegion(i - 1)) =
              IF RegionAligned(call.regions[i]) THEN 1 ELSE 0
    /\ Cardinality(ValidationFails) = Cardinality(UnalignedRegions)
    /\ UnalignedRegions # {} => cmd.result # "VK_SUCCESS"
    /\ AllViewsOk => Len(fails) = Cardinality(UnalignedRegions)
    /\ \A k \in 1..Len(draws) :
          LET region == call.regions[draws[k].i + 1] IN
          /\ draws[k].meta.shader_id = "INTEL_DEV_META_VS_COPY_MEM"
          /\ draws[k].meta.src.x = region.srcOffset \div 4
          /\ draws[k].meta.dst.x = region.destOffset \div 4
          /\ draws[k].meta.width = region.copySize \div 4

\* buffer copy where an unaligned region takes the byte-granular shader
CopyBoundaryFallback ==
    /\ \A i \in 1..Len(call.regions) : Cardinality(DrawsOfRegion(i - 1)) = 1
    /\ ValidationFails = {}
    /\ AllViewsOk => (fails = <<>> /\ cmd.result = "VK_SUCCESS")
    /\ \A k \in 1..Len(draws) :
          LET region == call.regions[draws[k].i + 1] IN
          IF RegionAligned(region)
          THEN /\ draws[k].meta.shader_id = "INTEL_DEV_META_VS_COPY_MEM"
               /\ draws[k].meta.src.x = region.srcOffset \div 4
               /\ draws[k].meta.dst.x = region.destOffset \div 4
               /\ draws[k].meta.width = region.copySize \div 4
          ELSE /\ draws[k].meta.shader_id = "INTEL_DEV_META_VS_COPY_MEM_UNALIGNED"
               /\ draws[k].meta.src.x = region.srcOffset
               /\ draws[k].meta.dst.x = region.destOffset
               /\ draws[k].meta.width = region.copySize

----------------------------------------------------------------------------
(* C1 *)

\* C1 as stated: for fill buffer, update buffer and buffer copy, on both
\* generations, a request with an offset or a size that is not a multiple of 4
\* records an error and dispatches no draw for it; a request whose values are
\* all multiples of 4 dispatches exactly one draw and, its views built,
\* records no error.
C1_AlignmentBoundary_AsStated ==
    Done => /\ FillUpdateBoundary
            /\ call.op = "CopyBuffer" => CopyBoundaryStrict

\* C1 amended: the same for fill and update on both generations and for buffer
\* copy on generation 6; on generation 7 an unaligned region of a buffer copy
\* records no error and dispatches exactly one draw, with the byte-granular
\* shader and its offsets and size in bytes.
C1_AlignmentBoundary ==
    Done => /\ FillUpdateBoundary
            /\ call.op = "CopyBuffer" =>
                  IF cmd.gen = 6 THEN CopyBoundaryStrict ELSE CopyBoundaryFallback

\* the second, unaligned region of a two-region copy on generation 7 is drawn
\* with the byte-granular shader
C1_Witness ==
    /\ Done
    /\ call.op = "CopyBuffer"
    /\ cmd.gen = 7
    /\ Len(call.regions) = 2
    /\ RegionAligned(call.regions[1])
    /\ ~RegionAligned(call.regions[2])
    /\ Len(draws) = 2
    /\ draws[2].meta.shader_id = "INTEL_DEV_META_VS_COPY_MEM_UNALIGNED"
    /\ fails = <<>>

----------------------------------------------------------------------------
(* C2 *)

\* C2 as stated: whenever a call of any public operation records a validation
\* error, that call has dispatched no draw and constructed no view.
C2_ValidationBeforeRegions_AsStated ==
    (Done /\ ValidationFails # {}) => (draws = <<>> /\ views = <<>>)

\* C2 amended: that holds for every public operation but buffer copy.  A
\* buffer copy validates region by region: on generation 6 an unaligned region
\* records the error and gets no draw, while every aligned region of the list
\* still gets its draw and the two buffer views are still constructed.
C2_ValidationBeforeRegions ==
    (Done /\ ValidationFails # {}) =>
        IF call.op = "CopyBuffer"
        THEN /\ cmd.gen = 6
             /\ Cardinality(ValidationFails) = Cardinality(UnalignedRegions)
             /\ \A i \in 1..Len(call.regions) :
                   Cardinality(DrawsOfRegion(i - 1)) =
                       IF RegionAligned(call.regions[i]) THEN 1 ELSE 0
             /\ Len(views) =
                   IF Cardinality(UnalignedRegions) < Len(call.regions)
                   THEN 2 ELSE 0
        ELSE /\ draws = <<>>
             /\ views = <<>>
             /\ Len(fails) = 1

\* a buffer copy on generation 6 whose second region is unaligned and whose
\* first region was drawn
C2_Witness ==
    /\ Done
    /\ call.op = "CopyBuffer"
    /\ cmd.gen = 6
    /\ Len(call.regions) = 2
    /\ ~RegionAligned(call.regions[2])
    /\ fails = <<"VK_ERROR_UNKNOWN">>
    /\ Len(draws) = 1
    /\ Len(views) = 2

----------------------------------------------------------------------------
(* C3 *)

RegionIterating ==
    {"CopyImage", "CopyBufferToImage", "ResolveImage", "ClearColorImage"}

IsFailure(v) == v.res # "VK_SUCCESS"

FailedViews == SelectSeq(views, IsFailure)

RegionDepth(region) ==
    IF call.op = "CopyBufferToImage" THEN region.imageExtent.depth
    ELSE region.extent.depth

Min(a, b) == IF a < b THEN a ELSE b

\* the (mip, layer) units of a range that lie inside the image
RangeUnits(img, range) ==
    {u \in (range.baseMipLevel
                .. Min(range.baseMipLevel + range.mipLevels, img.mip_levels) - 1)
           \X (range.baseArraySlice
                .. Min(range.baseArraySlice + range.arraySize, img.array_size) - 1) :
        TRUE}

\* every region, and every range of a clear, gets the draws it gets when
\* no view fails
BaselineDraws ==
    IF call.op = "ClearColorImage"
    THEN \A r \in 1..Len(call.ranges) :
            Cardinality({k \in 1..Len(draws) : draws[k].r = r - 1}) =
                Cardinality(RangeUnits(call.img, call.ranges[r]))
    ELSE \A i \in 1..Len(call.regions) :
            Cardinality(DrawsOfRegion(i - 1)) = RegionDepth(call.regions[i])

----------------------------------------------------------------------------
(* C4 *)

ReadsSource ==
    {"UpdateBuffer", "CopyBuffer", "CopyImage", "CopyBufferToImage",
     "CopyImageToBuffer", "ResolveImage"}

\* C4: whenever a draw is dispatched, the bindings it uses, the destination and
\* for the copies and the resolve the source, have valid = TRUE.
C4_DrawsUseValidBindings ==
    \A k \in 1..Len(draws) :
        /\ draws[k].meta.dst.valid
        /\ call.op \in ReadsSource => draws[k].meta.src.valid

----------------------------------------------------------------------------
(* C5 *)

\* C5: after every binding-construction step the binding's valid flag is true
\* exactly if the view of that step was constructed, and after a failed step
\* the words, the length and the relocation fields of the binding are zero.
C5_ValidIsConstructionResult ==
    \A k \in 1..Len(binds) :
        LET b == binds[k] IN
        /\ b.binding.valid <=> (b.res = "VK_SUCCESS")
        /\ b.res # "VK_SUCCESS" =>
              /\ b.binding.surface = ZeroSurface
              /\ b.binding.surface_len = 0
              /\ b.binding.reloc_target = 0
              /\ b.binding.reloc_offset = 0
              /\ b.binding.reloc_flags = {}

----------------------------------------------------------------------------
(* C6 *)

ResolveRejected ==
    \/ call.src.samples <= 1
    \/ call.dst.samples > 1
    \/ call.src.layout.format # call.dst.layout.format

ResolveShaderOf(samples) ==
    CASE samples = 2  -> "INTEL_DEV_META_FS_RESOLVE_2X"
      [] samples = 4  -> "INTEL_DEV_META_FS_RESOLVE_4X"
      [] samples = 8  -> "INTEL_DEV_META_FS_RESOLVE_8X"
      [] samples = 16 -> "INTEL_DEV_META_FS_RESOLVE_16X"

\* C6: a resolve records an error and dispatches no draw whenever the source
\* has at most one sample, the destination has more than one, or the formats
\* differ; otherwise it records no validation error and, for 2, 4, 8 and 16
\* source samples, dispatches with four pairwise distinct shader ids, one per
\* count.
C6_ResolvePrecondition ==
    (Done /\ call.op = "ResolveImage") =>
        IF ResolveRejected
        THEN fails = <<"VK_ERROR_UNKNOWN">> /\ draws = <<>>
        ELSE /\ ValidationFails = {}
             /\ call.src.samples \in {2, 4, 8, 16} =>
                   /\ meta.shader_id = ResolveShaderOf(call.src.samples)
                   /\ \A k \in 1..Len(draws) :
                         draws[k].meta.shader_id =
                             ResolveShaderOf(call.src.samples)
             /\ \A a, b \in {2, 4, 8, 16} :
                   a # b => ResolveShader(a) # ResolveShader(b)

\* a resolve of an 8-sample image that was dispatched
C6_Witness ==
    /\ Done
    /\ call.op = "ResolveImage"
    /\ call.src.samples = 8
    /\ fails = <<>>
    /\ Len(draws) > 0
    /\ draws[1].meta.shader_id = "INTEL_DEV_META_FS_RESOLVE_8X"

----------------------------------------------------------------------------
(* C7 *)

\* the selection table, by rows
SelectionTable(img, layered) ==
    CASE img.type = "VK_IMAGE_TYPE_1D" /\ ~layered -> "INTEL_DEV_META_FS_COPY_1D"
      [] img.type = "VK_IMAGE_TYPE_1D" /\ layered ->
            "INTEL_DEV_META_FS_COPY_1D_ARRAY"
      [] img.type = "VK_IMAGE_TYPE_2D" /\ ~layered /\ img.samples <= 1 ->
            "INTEL_DEV_META_FS_COPY_2D"
      [] img.type = "VK_IMAGE_TYPE_2D" /\ ~layered /\ img.samples > 1 ->
            "INTEL_DEV_META_FS_COPY_2D_MS"
      [] img.type = "VK_IMAGE_TYPE_2D" /\ layered ->
            "INTEL_DEV_META_FS_COPY_2D_ARRAY"
      [] img.type = "VK_IMAGE_TYPE_3D" -> "INTEL_DEV_META_FS_COPY_2D_ARRAY"

\* the table with the multisample row put before the layered row
SelectionTableBySamples(img, layered) ==
    IF img.type = "VK_IMAGE_TYPE_2D" /\ img.samples > 1
    THEN "INTEL_DEV_META_FS_COPY_2D_MS"
    ELSE SelectionTable(img, layered)

Layered(region) == region.extent.depth > 1

\* C7 as stated: every draw of an image copy carries the shader id the
\* selection table gives for the destination image's kind; a layered 2D
\* region gets copy-2D-array whatever the sample count.
C7_ShaderSelection_AsStated ==
    (Done /\ call.op = "CopyImage") =>
        \A k \in 1..Len(draws) :
            draws[k].meta.shader_id =
                SelectionTable(call.dst, Layered(call.regions[draws[k].i + 1]))

\* C7 amended: every draw of an image copy carries the shader id selected by
\* the source image's kind: a 2D source with more than one sample gives
\* copy-2D-multisample whether or not the region is layered, and the other
\* rows of the table are as stated.
C7_ShaderSelection ==
    (Done /\ call.op = "CopyImage") =>
        \A k \in 1..Len(draws) :
            draws[k].meta.shader_id =
                SelectionTableBySamples(call.src,
                                        Layered(call.regions[draws[k].i + 1]))

\* a layered region of a multisampled source, copied to a single-sampled image
C7_Witness ==
    /\ Done
    /\ call.op = "CopyImage"
    /\ call.src.samples > 1
    /\ call.dst.samples = 1
    /\ Len(call.regions) = 1
    /\ Layered(call.regions[1])
    /\ Len(draws) = 2
    /\ draws[2].meta.shader_id = "INTEL_DEV_META_FS_COPY_2D_MS"

----------------------------------------------------------------------------
(* C8 *)

MaxMips == 3
MaxSlices == 5

DrawsOfUnit(r, mip, layer) ==
    {k \in 1..Len(draws) : /\ draws[k].r = r
                           /\ draws[k].meta.dst.lod = mip
                           /\ draws[k].meta.dst.layer = layer}

BaseOutside(img, range) ==
    \/ range.baseMipLevel >= img.mip_levels
    \/ range.baseArraySlice >= img.array_size

\* C8: a colour clear dispatches exactly one draw, with the four clear values
\* of the call, for every (mip, layer) unit that is both in the range and in
\* the image, and none for any other unit; when every range starts outside
\* the image it dispatches nothing and records no error.
C8_ClearUnits ==
    (Done /\ call.op = "ClearColorImage") =>
        /\ \A r \in 1..Len(call.ranges) :
              \A mip \in 0..MaxMips, layer \in 0..MaxSlices :
                 Cardinality(DrawsOfUnit(r - 1, mip, layer)) =
                    IF <<mip, layer>> \in RangeUnits(call.img, call.ranges[r])
                    THEN 1 ELSE 0
        /\ \A k \in 1..Len(draws) :
              /\ draws[k].meta.dst.lod <= MaxMips
              /\ draws[k].meta.dst.layer <= MaxSlices
              /\ \A c \in 0..3 : draws[k].meta.clear_val[c] = call.color[c]
        /\ (\A r \in 1..Len(call.ranges) : BaseOutside(call.img, call.ranges[r]))
              => (draws = <<>> /\ views = <<>> /\ fails = <<>>
                  /\ cmd.result = "VK_SUCCESS")

\* a clear of a range that reaches beyond the image, then of one outside it
C8_Witness ==
    /\ Done
    /\ call.op = "ClearColorImage"
    /\ Len(call.ranges) = 2
    /\ call.ranges[1] = ColorRange(0, 3, 1, 4)
    /\ BaseOutside(call.img, call.ranges[2])
    /\ call.img.mip_levels = 2
    /\ call.img.array_size = 3
    /\ Len(draws) = 4
    /\ fails = <<>>

----------------------------------------------------------------------------
(* C9 *)

CeilDiv(a, b) == (a + b - 1) \div b

\* the destination bindings built for a block-compressed image
CompressedDstBinds ==
    IF call.op = "CopyBufferToImage"
       /\ icd_format_is_compressed(call.img.layout.format)
    THEN {k \in 1..Len(binds) : /\ binds[k].side = "dst"
                                /\ binds[k].res = "VK_SUCCESS"}
    ELSE {}

\* the words of the attachment view the binding was built from
EncodedWords(b) ==
    AttViewCmd(cmd.gen, call.img,
               [format |-> call.img.layout.format, mipLevel |-> b.lod,
                baseArraySlice |-> b.layer, arraySize |-> 1])

Dword2Fields == BitOr(FieldMask(FieldOf(cmd.gen, "DW2_WIDTH")),
                      FieldMask(FieldOf(cmd.gen, "DW2_HEIGHT")))

\* C9: after the adjustment of a block-compressed destination, on either
\* generation, the width field is ceil(pixel width / block width) - 1 and the
\* height field ceil(pixel height / block height) - 1, which is 32 for 130
\* pixels in blocks of 4, and every other bit of dword 2 is as encoded.
C9_BlockUnits ==
    \A k \in CompressedDstBinds :
        LET b == binds[k].binding
            pw == u_minify(call.img.layout.width0, b.lod)
            ph == u_minify(call.img.layout.height0, b.lod)
            bw == call.img.layout.block_width
            bh == call.img.layout.block_height
            wf == GEN_EXTRACT(b.surface[2], FieldOf(cmd.gen, "DW2_WIDTH"))
            hf == GEN_EXTRACT(b.surface[2], FieldOf(cmd.gen, "DW2_HEIGHT"))
        IN /\ GEN_EXTRACT(EncodedWords(b)[2], FieldOf(cmd.gen, "DW2_WIDTH"))
                 = pw - 1
           /\ GEN_EXTRACT(EncodedWords(b)[2], FieldOf(cmd.gen, "DW2_HEIGHT"))
                 = ph - 1
           /\ wf = CeilDiv(pw, bw) - 1
           /\ hf = CeilDiv(ph, bh) - 1
           /\ (pw = 130 /\ bw = 4) => wf = 32
           /\ (ph = 130 /\ bh = 4) => hf = 32
           /\ b.surface[2] \ Dword2Fields = EncodedWords(b)[2] \ Dword2Fields

\* a texture of 130x130 pixels in blocks of 4x4 whose encoded dword 2 has bits
\* outside the two fields
C9_Witness ==
    /\ Done
    /\ call.op = "CopyBufferToImage"
    /\ call.img.layout.width0 = 130
    /\ call.img.layout.height0 = 130
    /\ call.img.layout.block_width = 4
    /\ call.img.enc = TiledEnc
    /\ \E k \in CompressedDstBinds :
          /\ binds[k].binding.lod = 0
          /\ GEN_EXTRACT(binds[k].binding.surface[2],
                         FieldOf(cmd.gen, "DW2_WIDTH")) = 32
          /\ GEN_EXTRACT(binds[k].binding.surface[2],
                         FieldOf(cmd.gen, "DW2_HEIGHT")) = 32
          /\ binds[k].binding.surface[2] \ Dword2Fields # {}

----------------------------------------------------------------------------
(* C10 *)

\* C10: after the adjustment of a block-compressed destination at a non-zero
\* layer the minimum-array-element field is zero, the X-offset field is
\* (tile x / block width) >> 2 and the Y-offset field (tile y / block
\* height) >> 1, whatever the encoder left in them; at layer 0 these fields
\* and the relocation offset are as they were.
C10_LayerOffsets ==
    \A k \in CompressedDstBinds :
        LET b == binds[k].binding
            fa == FieldOf(cmd.gen, "DW4_MIN_ARRAY_ELEMENT")
            fx == FieldOf(cmd.gen, "DW5_X_OFFSET")
            fy == FieldOf(cmd.gen, "DW5_Y_OFFSET")
            t == intel_layout_get_slice_tile_offset(call.img.layout, 0, b.layer)
        IN IF b.layer # 0
           THEN /\ GEN_EXTRACT(b.surface[4], fa) = 0
                /\ GEN_EXTRACT(b.surface[5], fx) =
                      (t.x \div call.img.layout.block_width) \div 4
                /\ GEN_EXTRACT(b.surface[5], fy) =
                      (t.y \div call.img.layout.block_height) \div 2
           ELSE /\ b.surface[4] = EncodedWords(b)[4]
                /\ b.surface[5] = EncodedWords(b)[5]
                /\ b.reloc_offset = 0

----------------------------------------------------------------------------
(* C11 *)

RawSizes == {1, 2, 4, 8, 16}

RawFormats == {"VK_FORMAT_R8_UINT", "VK_FORMAT_R16_UINT", "VK_FORMAT_R32_UINT",
               "VK_FORMAT_R32G32_UINT", "VK_FORMAT_R32G32B32A32_UINT"}

\* the format the mapper returns for f
RawFormatOf(f) ==
    cmd_meta_img_raw_format(
        Machine(cmd, [k \in 1..MaxViewOrd |-> "VK_SUCCESS"], DebugBuild), f).format

\* the image whose format the call hands to the mapper, if it does
MapperImages ==
    CASE call.op = "CopyImage" ->
            IF call.src.layout.format = call.dst.layout.format
               /\ call.src.type = call.dst.type
            THEN {call.src} ELSE {}
      [] call.op \in {"CopyBufferToImage", "CopyImageToBuffer"} -> {call.img}
      [] call.op = "ResolveImage" ->
            IF ResolveRejected THEN {} ELSE {call.src}
      [] OTHER -> {}

\* C11: the mapper sends the texel sizes 1, 2, 4, 8 and 16 to five distinct
\* defined untyped formats, and an operation that hands it an image of any
\* other texel size dispatches no draw.
C11_RawFormatTotal ==
    /\ \A f, g \in Formats :
          icd_format_get_size(f) \in RawSizes =>
             /\ RawFormatOf(f) \in RawFormats
             /\ (icd_format_get_size(g) \in RawSizes
                 /\ icd_format_get_size(f) # icd_format_get_size(g))
                   => RawFormatOf(f) # RawFormatOf(g)
    /\ \A img \in MapperImages :
          icd_format_get_size(img.layout.format) \notin RawSizes
             => draws = <<>>

----------------------------------------------------------------------------
(* C12 *)

\* the queue ran a copy of range A to range B and then the copy back, A and B
\* of equal size with offsets and size multiples of 4
RoundTripRan ==
    /\ Len(submitted) = 2
    /\ LET r1 == submitted[1].regions[1]
           r2 == submitted[2].regions[1]
       IN /\ submitted[2].src = submitted[1].dst
          /\ submitted[2].dst = submitted[1].src
          /\ r2.srcOffset = r1.destOffset
          /\ r2.destOffset = r1.srcOffset
          /\ r2.copySize = r1.copySize
          /\ RegionAligned(r1)
          /\ <<submitted[1].src.bo, r1.srcOffset>>
                # <<submitted[1].dst.bo, r1.destOffset>>

\* C12: after a buffer copy of A to B and a buffer copy of B to A, both
\* executed, B holds the original bytes of A, A is unchanged and no other
\* byte of any buffer has changed.
C12_RoundTrip ==
    RoundTripRan =>
        LET A == submitted[1].src.bo
            B == submitted[1].dst.bo
            r == submitted[1].regions[1]
            InB(bo, a) == /\ bo = B
                          /\ a >= r.destOffset
                          /\ a < r.destOffset + r.copySize
        IN /\ \A k \in 0..(r.copySize - 1) :
                 /\ mem[B][r.destOffset + k] = InitialMemory[A][r.srcOffset + k]
                 /\ mem[A][r.srcOffset + k] = InitialMemory[A][r.srcOffset + k]
           /\ \A bo \in DOMAIN mem : \A a \in DOMAIN mem[bo] :
                 ~InB(bo, a) => mem[bo][a] = InitialMemory[bo][a]

\* eight bytes went from one buffer to the other and back
C12_Witness ==
    /\ RoundTripRan
    /\ submitted[1].src # submitted[1].dst
    /\ submitted[1].regions[1].copySize = 8
    /\ mem # InitialMemory
    /\ pc = "idle"


----------------------------------------------------------------------------
(* Lifetime of the transient views *)

DsOperations == {"ClearDepthStencilImage", "ClearDepthStencilAttachment", "DsOp"}

IsDsDraw(d) == d.meta.mode = "INTEL_CMD_META_DEPTH_STENCIL_RECT"

\* C13 as stated: at every draw no view is alive and the descriptor refers
\* to none, and none is alive once the call has returned.
C13_TransientViews_AsStated ==
    /\ \A k \in 1..Len(draws) :
          /\ draws[k].live = {}
          /\ draws[k].meta.ds.view = 0
    /\ Done => live = {}

\* C13: buffer, image and colour attachment views are destroyed before the
\* builder that made them returns, so none is alive at any draw; the
\* depth/stencil view stays alive and referenced from the descriptor through
\* the draw of its layer whenever its construction succeeded, no other view
\* is alive at that draw, and no view is alive once the call has returned.
C13_TransientViews ==
    /\ \A k \in 1..Len(draws) :
          IF IsDsDraw(draws[k])
          THEN /\ draws[k].live \subseteq {draws[k].meta.ds.view}
               /\ (call.op \in DsOperations /\ views[k].res = "VK_SUCCESS") =>
                      /\ draws[k].meta.ds.view = k
                      /\ draws[k].live = {k}
          ELSE /\ draws[k].live = {}
               /\ draws[k].meta.ds.view = 0
    /\ Done => live = {}

\* a depth/stencil clear of two layers whose views were alive at their draws
C13_Witness ==
    /\ Done
    /\ call.op = "ClearDepthStencilImage"
    /\ Len(draws) >= 2
    /\ draws[1].live = {1}
    /\ draws[2].live = {2}
    /\ draws[2].meta.ds.view = 2
    /\ live = {}


----------------------------------------------------------------------------
(* Relocation requests of the bindings *)

\* the source of an update is the range of the command-stream writer
FromWriter(k) == call.op = "UpdateBuffer" /\ binds[k].side = "src"

\* the image an image destination binding is built for
DstImage == IF call.op = "CopyBufferToImage" THEN call.img ELSE call.dst

\* C14: in every binding a successful builder call leaves, the write flag is
\* set exactly if it is a destination binding, the writer flag exactly if it
\* was built from a writer range, a source binding of a buffer or an image
\* has no flag, and the relocation offset is 0 unless the destination image
\* is block-compressed, where it is the tile offset of the layer.
C14_RelocationFlags ==
    \A k \in 1..Len(binds) :
        binds[k].res = "VK_SUCCESS" =>
            LET b == binds[k].binding IN
            /\ b.valid
            /\ "INTEL_RELOC_WRITE" \in b.reloc_flags <=> binds[k].side = "dst"
            /\ "INTEL_CMD_RELOC_TARGET_IS_WRITER" \in b.reloc_flags
                  <=> FromWriter(k)
            /\ (binds[k].side = "src" /\ ~FromWriter(k)) => b.reloc_flags = {}
            /\ FromWriter(k) => b.reloc_target = INTEL_CMD_WRITER_STATE
            /\ b.reloc_offset # 0 =>
                  /\ binds[k].side = "dst"
                  /\ call.op \in {"CopyBufferToImage", "CopyImage"}
                  /\ icd_format_is_compressed(DstImage.layout.format)
                  /\ b.reloc_offset =
                        intel_layout_get_slice_tile_offset(
                            DstImage.layout, 0, b.layer).offset

\* an update built the writer source and the buffer destination
C14_Witness ==
    /\ Done
    /\ call.op = "UpdateBuffer"
    /\ Len(draws) > 0
    /\ \E k \in 1..Len(binds) :
          /\ FromWriter(k)
          /\ binds[k].binding.reloc_flags = {"INTEL_CMD_RELOC_TARGET_IS_WRITER"}
    /\ \E k \in 1..Len(binds) :
          /\ binds[k].side = "dst"
          /\ binds[k].binding.reloc_flags = {"INTEL_RELOC_WRITE"}


----------------------------------------------------------------------------
(* Attachment clears *)

AttachmentClear ==
    call.op \in {"ClearColorAttachment", "ClearDepthStencilAttachment"}

\* the aspects an attachment clear is to clear
AttachmentAspects ==
    IF call.op = "ClearColorAttachment" THEN {"VK_IMAGE_ASPECT_COLOR"}
    ELSE {a \in {"VK_IMAGE_ASPECT_DEPTH", "VK_IMAGE_ASPECT_STENCIL"} :
             (a = "VK_IMAGE_ASPECT_DEPTH"
                 /\ "VK_IMAGE_ASPECT_DEPTH_BIT" \in call.imageAspectMask)
             \/ (a = "VK_IMAGE_ASPECT_STENCIL"
                 /\ "VK_IMAGE_ASPECT_STENCIL_BIT" \in call.imageAspectMask)}

DrawAspect(d) ==
    IF IsDsDraw(d) THEN d.meta.ds.aspect ELSE "VK_IMAGE_ASPECT_COLOR"

\* the draws of rectangle i for one aspect at one mip level and layer
RectDraws(i, aspect, mip, layer) ==
    {k \in 1..Len(draws) : /\ draws[k].rect = i
                           /\ DrawAspect(draws[k]) = aspect
                           /\ draws[k].meta.dst.lod = mip
                           /\ draws[k].meta.dst.layer = layer}

RectLayers(img, rect) ==
    rect.offset.z .. Min(rect.offset.z + rect.extent.depth, img.array_size) - 1

\* C15: an attachment clear draws, for rectangle i and for each aspect it is
\* to clear, exactly once per layer of [offset.z, offset.z + extent.depth)
\* clamped to the array size, at the mip level of the bound attachment view
\* and with the full width and height of that mip level.
C15_AttachmentClears ==
    (Done /\ AttachmentClear) =>
        /\ \A i \in 1..Len(call.rects) : \A aspect \in AttachmentAspects :
              \A mip \in 0..MaxMips, layer \in 0..MaxSlices :
                 Cardinality(RectDraws(i - 1, aspect, mip, layer)) =
                    IF mip = call.view.mipLevel
                       /\ layer \in RectLayers(call.view.img, call.rects[i])
                    THEN 1 ELSE 0
        /\ \A k \in 1..Len(draws) :
              /\ DrawAspect(draws[k]) \in AttachmentAspects
              /\ draws[k].meta.width =
                    u_minify(call.view.img.layout.width0, call.view.mipLevel)
              /\ draws[k].meta.height =
                    u_minify(call.view.img.layout.height0, call.view.mipLevel)

\* the colour half of C15 holds
C15_ColorAttachment ==
    call.op = "ClearColorAttachment" => C15_AttachmentClears

\* the depth/stencil half holds for views of mip level 0
C15_DsAttachmentMip0 ==
    (call.op = "ClearDepthStencilAttachment" /\ call.view.mipLevel = 0)
        => C15_AttachmentClears


----------------------------------------------------------------------------
(* Blit *)

\* C16: a blit, whatever its images, regions and filter, records the
\* unavailable error on the command buffer, dispatches no draw and
\* constructs no view.
C16_BlitUnavailable ==
    (Done /\ call.op = "BlitImage") =>
        /\ fails = <<"VK_ERROR_UNAVAILABLE">>
        /\ cmd.result = IF call.result0 = "VK_SUCCESS"
                        THEN "VK_ERROR_UNAVAILABLE" ELSE call.result0
        /\ draws = <<>>
        /\ views = <<>>
        /\ binds = <<>>
        /\ live = {}

\* a linear blit of two regions between two different images has failed
C16_Witness ==
    /\ Done
    /\ call.op = "BlitImage"
    /\ call.filter = "VK_TEX_FILTER_LINEAR"
    /\ Len(call.regions) = 2
    /\ call.src # call.dst
    /\ cmd.result = "VK_ERROR_UNAVAILABLE"


----------------------------------------------------------------------------
(* Independence of the regions of one call *)

RegionListOps == {"CopyBuffer", "CopyImage", "CopyBufferToImage",
                  "CopyImageToBuffer", "ResolveImage"}

\* the format vkCmdCopyBuffer binds its buffers with for region n of the call
\* (an unaligned region is skipped on generation 6)
RECURSIVE BufferCopyFormat(_)
BufferCopyFormat(n) ==
    IF n = 0 THEN "VK_FORMAT_UNDEFINED"
    ELSE IF cmd_meta_mem_dword_aligned(call.regions[n].srcOffset,
                                       call.regions[n].destOffset,
                                       call.regions[n].copySize)
         THEN "VK_FORMAT_R32G32B32A32_UINT"
         ELSE IF cmd.gen = 6 THEN BufferCopyFormat(n - 1)
         ELSE "VK_FORMAT_R8G8B8A8_UINT"

\* the regions up to n at which vkCmdCopyBuffer builds its two views anew
FormatChanges(n) ==
    {p \in 1..n : BufferCopyFormat(p) # BufferCopyFormat(p - 1)}

\* the ordinals, in the call, of the view constructions that the units of
\* region n (counted from 1) rest on, in the order a call with that region
\* alone makes them: the views made before the loop, then the region's own
OrdinalsOfRegion(n) ==
    IF call.op = "CopyBuffer"
    THEN <<2 * Cardinality(FormatChanges(n)) - 1,
           2 * Cardinality(FormatChanges(n))>>
    ELSE IF call.op = "CopyImageToBuffer"
    THEN [p \in 1..Len(views) |-> p]
    ELSE LET before == Cardinality({k \in 1..Len(draws) : draws[k].i < n - 1})
             own == Cardinality(DrawsOfRegion(n - 1))
         IN [p \in 1..(1 + own) |-> IF p = 1 THEN 1 ELSE before + p]

SoloOracle(n) ==
    [p \in 1..Len(OrdinalsOfRegion(n)) |-> views[OrdinalsOfRegion(n)[p]].res]

\* the call made with region n alone, its views ending as they did for the
\* units of region n in the call with the whole list
SoloRun(n) ==
    LET m == Machine([cmd EXCEPT !.result = call.result0], SoloOracle(n),
                     IF call.op \in {"CopyBuffer", "ResolveImage"}
                     THEN DebugBuild ELSE call.build)
        rs == <<call.regions[n]>>
    IN CASE call.op = "CopyBuffer" ->
                vkCmdCopyBuffer(m, call.src, call.dst, rs)
         [] call.op = "CopyImage" ->
                vkCmdCopyImage(m, call.src, call.dst, rs)
         [] call.op = "CopyBufferToImage" ->
                vkCmdCopyBufferToImage(m, call.buf, call.img, rs)
         [] call.op = "CopyImageToBuffer" ->
                vkCmdCopyImageToBuffer(m, call.img, call.buf, rs)
         [] call.op = "ResolveImage" ->
                vkCmdResolveImage(m, call.src, call.dst, rs)

\* C17: the descriptor dispatched for a region and layer of a buffer copy,
\* image copy, buffer-to-image copy, image-to-buffer copy or resolve is the
\* descriptor a call with that region alone dispatches for the layer, given
\* the same outcomes of the view constructions of its units.
C17_RegionsIndependent ==
    (Done /\ call.op \in RegionListOps) =>
        \A k \in 1..Len(draws) :
            LET solo == SoloRun(draws[k].i + 1).draws IN
            /\ Len(solo) > draws[k].j
            /\ solo[draws[k].j + 1].meta = draws[k].meta

\* with every view constructed the regions are independent
C17_IndependentWhenViewsSucceed ==
    AllViewsOk => C17_RegionsIndependent


----------------------------------------------------------------------------
(* The Hi-Z operation *)

\* the call has ended, by returning or by the process dying in it
Ended == pc \in {"done", "crashed"}

HizGateOpen ==
    /\ call.img.layout.aux = "INTEL_LAYOUT_AUX_HIZ"
    /\ call.range.aspect = "VK_IMAGE_ASPECT_DEPTH"

\* the draws at one mip level and layer
UnitDraws(mip, layer) ==
    {k \in 1..Len(draws) : /\ draws[k].meta.dst.lod = mip
                           /\ draws[k].meta.dst.layer = layer}

\* what the gating of the Hi-Z operation lets through
HizGating ==
    /\ ~HizGateOpen =>
          (draws = <<>> /\ views = <<>> /\ fails = <<>>
           /\ cmd.result = call.result0)
    /\ (HizGateOpen /\ call.ds_op # "INTEL_CMD_META_DS_NOP") =>
          /\ \A mip \in 0..MaxMips, layer \in 0..MaxSlices :
                Cardinality(UnitDraws(mip, layer)) =
                   IF /\ <<mip, layer>> \in RangeUnits(call.img, call.range)
                      /\ intel_img_can_enable_hiz(call.img, mip)
                   THEN 1 ELSE 0
          /\ \A k \in 1..Len(draws) :
                /\ draws[k].meta.ds.op = call.ds_op
                /\ draws[k].meta.ds.aspect = "VK_IMAGE_ASPECT_DEPTH"
          \* errors come from failed view constructions of drawn units only
          /\ Len(views) = Len(draws)
          /\ Len(fails) = Len(FailedViews)

\* C18: a Hi-Z operation draws nothing and records no error unless the image
\* has a Hi-Z surface and the aspect is depth; otherwise a mip level that
\* cannot enable Hi-Z gets no draw and no error, and every other mip level
\* of the clamped range gets one draw per layer.
C18_HizGating ==
    (Ended /\ call.op = "DsOp") => HizGating

\* the gating holds for every Hi-Z operation that returns
C18_GatingWhenReturned ==
    (Done /\ call.op = "DsOp") => HizGating


----------------------------------------------------------------------------
(* Release of the depth/stencil views *)

\* C19: in a depth/stencil clear, whichever of its view constructions fail,
\* every handle passed to the destroy step is not null, is the handle of a
\* view constructed earlier in the call and was not passed to it before, and
\* once the call has returned every constructed view has been destroyed
\* exactly once.
C19_DestroyOnlyLiveViews ==
    (Ended /\ call.op = "ClearDepthStencilImage") =>
        /\ \A k \in 1..Len(destroys) :
              /\ destroys[k] # 0
              /\ destroys[k] \in 1..Len(views)
              /\ views[destroys[k]].res = "VK_SUCCESS"
              /\ \A p \in 1..(k - 1) : destroys[p] # destroys[k]
        /\ Done =>
              \A v \in 1..Len(views) :
                 views[v].res = "VK_SUCCESS" =>
                    Cardinality({k \in 1..Len(destroys) : destroys[k] = v}) = 1

\* with every view constructed each view is destroyed once, right after its draw
C19_HoldsWhenViewsSucceed ==
    AllViewsOk => C19_DestroyOnlyLiveViews


----------------------------------------------------------------------------
(* Geometry of the two buffer/image copies *)

\* the draws of the buffer-to-image copy of the same buffer, image and regions
UploadOfSame ==
    vkCmdCopyBufferToImage(
        Machine([cmd EXCEPT !.result = call.result0],
                [p \in {} |-> "VK_SUCCESS"], call.build),
        call.buf, call.img, call.regions).draws

\* C20: every draw of an image-to-buffer copy has the geometry of the draw
\* the buffer-to-image copy of the same image and region dispatches for the
\* same layer: the image x/y, the width and the height are the region's
\* values divided by the block width of the image format, and layer j
\* starts at buffer element bufferOffset / texelSize + j * width * height.
C20_SameGeometry ==
    (Done /\ call.op = "CopyImageToBuffer") =>
        \A k \in 1..Len(draws) :
            LET d == draws[k].meta
                region == call.regions[draws[k].i + 1]
                bw == icd_format_get_block_width(call.img.layout.format)
                size == icd_format_get_size(call.img.layout.format)
            IN /\ \E p \in 1..Len(UploadOfSame) :
                     LET u == UploadOfSame[p] IN
                     /\ u.i = draws[k].i
                     /\ u.j = draws[k].j
                     /\ u.meta.dst.x = d.src.x
                     /\ u.meta.dst.y = d.src.y
                     /\ u.meta.width = d.width
                     /\ u.meta.height = d.height
                     /\ u.meta.src.x = d.dst.x
               /\ d.src.x = region.imageOffset.x \div bw
               /\ d.src.y = region.imageOffset.y \div bw
               /\ d.width = region.imageExtent.width \div bw
               /\ d.height = region.imageExtent.height \div bw
               /\ d.dst.x = region.bufferOffset \div size
                               + draws[k].j * d.width * d.height

\* for formats of block width 1 the two directions agree
C20_SameGeometryUncompressed ==
    (call.op = "CopyImageToBuffer"
        /\ ~icd_format_is_compressed(call.img.layout.format))
        => C20_SameGeometry

====
